---- MODULE Spec2Model ----
(***************************************************************************)
(* Storage engine of the blockchain simulation (src/storage.c): the block  *)
(* log blockchain.bin, the 16-slot write buffer, the nonce and miner       *)
(* indices, the transaction-count cache and the running aggregates.        *)
(*                                                                         *)
(* A block record (BlocoMinerado, src/structs.h) is                        *)
(*   [hash, numero, nonce, data, hashAnterior]                             *)
(* with data = [tx |-> sequence of triples <<origem, destino, valor>>,     *)
(*              minerador |-> byte 183].                                   *)
(* The triples of data.tx are the leading triples of the 183 transaction   *)
(* bytes; every byte after them is zero (the generator memsets the         *)
(* payload), so the triple at an index past Len(data.tx) is <<0,0,0>>.     *)
(***************************************************************************)
EXTENDS Integers, Sequences, FiniteSets, TLC

VARIABLES
    disco,                  \* the file blockchain.bin as it is on disk
    arquivoAtual,           \* FILE *arquivoAtual: "NULL", "aberto", "fechado"
    buffer,                 \* BlocoMinerado buffer[BUFFER_SIZE]: slots 0 .. contadorBuffer-1
    contadorBuffer,         \* int contadorBuffer
    totalBlocos,            \* stats.totalBlocos
    tabelaNonce,            \* NoHash *tabelaNonce[TAM_HASH] (buckets in use)
    indiceMinerador,        \* NoMinerador *indiceMinerador[256]
    fimMinerador,           \* NoMinerador *fimMinerador[256]
    saldos,                 \* unsigned int saldos[256]
    blocosMinerados,        \* unsigned int blocosMinerados[256]
    totalValorTransacionado,
    maiorSaldoAtual,
    maiorQtdMinerada,
    maxTransacoesGlobal,
    listaMaxTx,
    minTransacoesGlobal,
    listaMinTx,
    cacheContagemTx,        \* unsigned char *cacheContagemTx (first cacheTamanho slots)
    cacheTamanho,
    cacheCapacidade,
    posicao,                \* the file position of the stream arquivoAtual, in bytes
    leitura,                \* the caller's last buscarBlocoPorId since the open: id, output record, return value
    passados,               \* history: the records of the chain, in call order of adicionarBloco
    antesDeFechar,          \* history: indices and aggregates as finalizarStorage found them
    antesDeMatar,           \* history: the chain and the counters as the kill found them
    persistidosAoAbrir,     \* history: the whole records the log held when the open engine opened it
    fase                    \* history: what the engine did last

vars == <<disco, arquivoAtual, buffer, contadorBuffer, totalBlocos, tabelaNonce,
          indiceMinerador, fimMinerador, saldos, blocosMinerados,
          totalValorTransacionado, maiorSaldoAtual, maiorQtdMinerada,
          maxTransacoesGlobal, listaMaxTx, minTransacoesGlobal, listaMinTx,
          cacheContagemTx, cacheTamanho, cacheCapacidade, posicao, leitura,
          passados, antesDeFechar, antesDeMatar, persistidosAoAbrir, fase>>

----------------------------------------------------------------------------
(* Program constants *)

READ_LOTE == 256
BUFFER_SIZE == 16
HASH_BITS == 14
MINERADOR_OFFSET == 183
TRANSACAO_SIZE == 3
NUM_ENDERECOS == 256
CACHE_INICIAL == 1000
CACHE_CRESCIMENTO == 2
RECOMPENSA == 50
MIN_TX_INICIAL == 1000
TAM_BLOCO == 256            \* sizeof(BlocoMinerado) = 32 + 4 + 4 + 184 + 32

Enderecos == 0 .. (NUM_ENDERECOS - 1)

(* Bounds of the model *)

MaxBlocos == 18             \* appends are modelled up to this chain length
PrefixoLivre == 2           \* the first blocks are drawn freely from Entradas
FragBytes == 100            \* size of a torn tail left on the log
MaxFragApos == 2            \* a torn tail is left after at most this many records
MaxArquivo == 260           \* longest pre-existing log of SpecAbrir, in records

----------------------------------------------------------------------------
(* Records *)

HashZero == <<0>>

DataZero == [tx |-> <<>>, minerador |-> 0]

BlocoZero == [hash |-> HashZero, numero |-> 0, nonce |-> 0, data |-> DataZero,
              hashAnterior |-> HashZero]

\* The 256 bytes a read returns when they straddle a torn tail and the record
\* written after it: no field of any appended record.
Ilegivel(offset) == [hash |-> <<-1, offset>>, numero |-> 0, nonce |-> 0,
                     data |-> DataZero, hashAnterior |-> <<-1>>]

\* The header digest of a mined block: first byte zero, the rest determined
\* by the header fields.
calcularHash(numero, nonce, data) ==
    <<0, numero, nonce, data.minerador, Len(data.tx)>>

\* The triple at byte offset i of the payload.
Tripla(data, i) ==
    LET k == (i \div TRANSACAO_SIZE) + 1
    IN  IF k <= Len(data.tx)
        THEN [origem |-> data.tx[k][1], destino |-> data.tx[k][2], valor |-> data.tx[k][3]]
        ELSE [origem |-> 0, destino |-> 0, valor |-> 0]

----------------------------------------------------------------------------
(* The log file *)

\* disco = [existe, regs, antes, frag]: the records written to the file in
\* write order, and a torn tail of frag bytes (0: none) that sits after the
\* first `antes` records.
ArquivoInexistente == [existe |-> FALSE, regs |-> <<>>, antes |-> 0, frag |-> 0]

TamanhoArquivo(f) == TAM_BLOCO * Len(f.regs) + f.frag

\* fread(saida, TAM_BLOCO, 1, f) at a byte offset that is a multiple of
\* TAM_BLOCO: the number of items read and what saida holds afterwards.
LerEm(f, offset, saida) ==
    IF offset + TAM_BLOCO > TamanhoArquivo(f)
    THEN [lidos |-> 0,
          bloco |-> IF offset >= TamanhoArquivo(f) THEN saida ELSE Ilegivel(offset)]
    ELSE IF f.frag = 0 \/ (offset \div TAM_BLOCO) < f.antes
         THEN [lidos |-> 1, bloco |-> f.regs[(offset \div TAM_BLOCO) + 1]]
         ELSE [lidos |-> 1, bloco |-> Ilegivel(offset)]

\* LerLote that takes a batch shorter than n for the end of the file.
LerLote_soLotesCheios(f, pos, n) ==
    LET disponiveis == (TamanhoArquivo(f) - pos) \div TAM_BLOCO
    IN  IF disponiveis >= n
        THEN [lidos |-> n, pos |-> pos + n * TAM_BLOCO]
        ELSE [lidos |-> 0, pos |-> TamanhoArquivo(f)]

\* fread(lote, TAM_BLOCO, n, f) from byte position pos: the number of whole
\* records read and the position afterwards.
LerLote(f, pos, n) ==
    LET disponiveis == (TamanhoArquivo(f) - pos) \div TAM_BLOCO
    IN  IF disponiveis >= n
        THEN [lidos |-> n, pos |-> pos + n * TAM_BLOCO]
        ELSE [lidos |-> disponiveis, pos |-> TamanhoArquivo(f)]

\* The buffer array holds its slots 0 .. contadorBuffer-1 as a sequence:
\* slot i is buf[i + 1].  The slots from contadorBuffer on keep stale records
\* that no code path reads, and are not part of the state.
Slot(buf, i) == buf[i + 1]

\* rewind + fwrite of the first n buffer slots, over the head of the file.
EscreverNoFim_noInicio(f, buf, n) ==
    [f EXCEPT !.regs = [i \in 1 .. n |-> Slot(buf, i - 1)]
                           \o SubSeq(f.regs, n + 1, Len(f.regs))]

\* fseek(SEEK_END) + fwrite of the first n buffer slots.
EscreverNoFim(f, buf, n) ==
    [f EXCEPT !.regs = f.regs \o [i \in 1 .. n |-> Slot(buf, i - 1)]]

\* Every whole record of the file starts at a multiple of TAM_BLOCO.
Alinhado(f) == f.frag = 0 \/ f.antes = Len(f.regs)

----------------------------------------------------------------------------
(* Indices and aggregates.  The operators below take and return the record *)
(* g of the engine's globals, so that one call of adicionarBloco and the   *)
(* replay loop of reconstruirIndicesDoDisco run the same code.             *)

Globais ==
    [totalBlocos |-> totalBlocos, tabelaNonce |-> tabelaNonce,
     indiceMinerador |-> indiceMinerador, fimMinerador |-> fimMinerador,
     saldos |-> saldos, blocosMinerados |-> blocosMinerados,
     totalValorTransacionado |-> totalValorTransacionado,
     maiorSaldoAtual |-> maiorSaldoAtual, maiorQtdMinerada |-> maiorQtdMinerada,
     maxTransacoesGlobal |-> maxTransacoesGlobal, listaMaxTx |-> listaMaxTx,
     minTransacoesGlobal |-> minTransacoesGlobal, listaMinTx |-> listaMinTx,
     cacheContagemTx |-> cacheContagemTx, cacheTamanho |-> cacheTamanho,
     cacheCapacidade |-> cacheCapacidade]

\* resetarIndices without the last but one statement: stats.totalBlocos is
\* left as it is.
resetarIndices_semTotal ==
    [totalBlocos |-> totalBlocos, tabelaNonce |-> <<>>,
     indiceMinerador |-> [a \in Enderecos |-> <<>>],
     fimMinerador |-> [a \in Enderecos |-> 0],
     saldos |-> [a \in Enderecos |-> 0],
     blocosMinerados |-> [a \in Enderecos |-> 0],
     totalValorTransacionado |-> 0,
     maiorSaldoAtual |-> 0, maiorQtdMinerada |-> 0,
     maxTransacoesGlobal |-> -1, listaMaxTx |-> <<>>,
     minTransacoesGlobal |-> MIN_TX_INICIAL, listaMinTx |-> <<>>,
     cacheContagemTx |-> <<>>, cacheTamanho |-> 0, cacheCapacidade |-> 0]

\* The globals as resetarIndices leaves them (and as static storage starts).
resetarIndices ==
    [totalBlocos |-> 0, tabelaNonce |-> <<>>,
     indiceMinerador |-> [a \in Enderecos |-> <<>>],
     fimMinerador |-> [a \in Enderecos |-> 0],
     saldos |-> [a \in Enderecos |-> 0],
     blocosMinerados |-> [a \in Enderecos |-> 0],
     totalValorTransacionado |-> 0,
     maiorSaldoAtual |-> 0, maiorQtdMinerada |-> 0,
     maxTransacoesGlobal |-> -1, listaMaxTx |-> <<>>,
     minTransacoesGlobal |-> MIN_TX_INICIAL, listaMinTx |-> <<>>,
     cacheContagemTx |-> <<>>, cacheTamanho |-> 0, cacheCapacidade |-> 0]

\* Insertion at the head of a tie-set list.
adicionarRecorde(lista, idBloco) == <<idBloco>> \o lista

\* The capacity after the growth loop of adicionarAoCache.
RECURSIVE expandirCacheTx(_, _)
expandirCacheTx(capacidade, idBloco) ==
    IF idBloco > capacidade
    THEN expandirCacheTx(IF capacidade = 0 THEN CACHE_INICIAL
                         ELSE capacidade * CACHE_CRESCIMENTO, idBloco)
    ELSE capacidade

\* cacheContagemTx[idBloco - 1] = qtdTx; the slots between the old
\* cacheTamanho and idBloco hold the zeros expandirCacheTx wrote.
adicionarAoCache(g, idBloco, qtdTx) ==
    LET n == IF idBloco > g.cacheTamanho THEN idBloco ELSE g.cacheTamanho
        c == [i \in 1 .. n |->
                IF i = idBloco THEN qtdTx
                ELSE IF i <= g.cacheTamanho THEN g.cacheContagemTx[i] ELSE 0]
    IN  [g EXCEPT !.cacheCapacidade = expandirCacheTx(g.cacheCapacidade, idBloco),
                  !.cacheContagemTx = c,
                  !.cacheTamanho = n]

obterContagemDoCache(g, idBloco) ==
    IF idBloco = 0 \/ idBloco > g.cacheTamanho THEN 0
    ELSE g.cacheContagemTx[idBloco]

\* Recompensa without the increment of blocosMinerados.
Recompensa_semContagem(g, minerador) ==
    LET s == g.saldos[minerador] + RECOMPENSA
    IN  [g EXCEPT !.saldos[minerador] = s,
                  !.maiorSaldoAtual = IF s > @ THEN s ELSE @]

\* Recompensa without the update of maiorQtdMinerada.
Recompensa_semMaximoMinerado(g, minerador) ==
    LET s == g.saldos[minerador] + RECOMPENSA
        m == g.blocosMinerados[minerador] + 1
    IN  [g EXCEPT !.saldos[minerador] = s,
                  !.blocosMinerados[minerador] = m,
                  !.maiorSaldoAtual = IF s > @ THEN s ELSE @]

\* Step 1 and 2 of atualizarEstatisticasGlobais: reward and cached maxima.
Recompensa(g, minerador) ==
    LET s == g.saldos[minerador] + RECOMPENSA
        m == g.blocosMinerados[minerador] + 1
    IN  [g EXCEPT !.saldos[minerador] = s,
                  !.blocosMinerados[minerador] = m,
                  !.maiorSaldoAtual = IF s > @ THEN s ELSE @,
                  !.maiorQtdMinerada = IF m > @ THEN m ELSE @]

\* AplicarTx with the debit of the sender left out.
AplicarTx_semDebito(acc, t) ==
    LET s2 == [acc.saldos EXCEPT ![t.destino] = @ + t.valor]
    IN  [saldos |-> s2, total |-> acc.total + t.valor, tx |-> acc.tx + 1]

\* AplicarTx without the addition to the value sum.
AplicarTx_semTotal(acc, t) ==
    LET s1 == [acc.saldos EXCEPT ![t.origem] = @ - t.valor]
        s2 == [s1 EXCEPT ![t.destino] = @ + t.valor]
    IN  [saldos |-> s2, total |-> acc.total, tx |-> acc.tx + 1]

\* One applied transaction.
AplicarTx(acc, t) ==
    LET s1 == [acc.saldos EXCEPT ![t.origem] = @ - t.valor]
        s2 == [s1 EXCEPT ![t.destino] = @ + t.valor]
    IN  [saldos |-> s2, total |-> acc.total + t.valor, tx |-> acc.tx + 1]

\* ProcessarTransacoes that counts a refused transaction like an applied one.
RECURSIVE ProcessarTransacoes_contaEscritas(_, _, _)
ProcessarTransacoes_contaEscritas(acc, data, i) ==
    IF ~(i < MINERADOR_OFFSET) THEN acc
    ELSE LET t == Tripla(data, i)
         IN  IF t.valor > 0
             THEN IF acc.saldos[t.origem] >= t.valor
                  THEN ProcessarTransacoes_contaEscritas(AplicarTx(acc, t), data,
                                                         i + TRANSACAO_SIZE)
                  ELSE ProcessarTransacoes_contaEscritas([acc EXCEPT !.tx = @ + 1], data,
                                                         i + TRANSACAO_SIZE)
             ELSE IF t.origem = 0 /\ t.destino = 0
                  THEN acc
                  ELSE ProcessarTransacoes_contaEscritas(acc, data, i + TRANSACAO_SIZE)

\* ProcessarTransacoes that leaves the loop at a refused transaction.
RECURSIVE ProcessarTransacoes_paraNaRecusa(_, _, _)
ProcessarTransacoes_paraNaRecusa(acc, data, i) ==
    IF ~(i < MINERADOR_OFFSET) THEN acc
    ELSE LET t == Tripla(data, i)
         IN  IF t.valor > 0
             THEN IF acc.saldos[t.origem] >= t.valor
                  THEN ProcessarTransacoes_paraNaRecusa(AplicarTx(acc, t), data,
                                                        i + TRANSACAO_SIZE)
                  ELSE acc
             ELSE IF t.origem = 0 /\ t.destino = 0
                  THEN acc
                  ELSE ProcessarTransacoes_paraNaRecusa(acc, data, i + TRANSACAO_SIZE)

\* ProcessarTransacoes without the break at the triple (0, 0, 0).
RECURSIVE ProcessarTransacoes_semSentinela(_, _, _)
ProcessarTransacoes_semSentinela(acc, data, i) ==
    IF ~(i < MINERADOR_OFFSET) THEN acc
    ELSE LET t == Tripla(data, i)
         IN  IF t.valor > 0
             THEN IF acc.saldos[t.origem] >= t.valor
                  THEN ProcessarTransacoes_semSentinela(AplicarTx(acc, t), data,
                                                        i + TRANSACAO_SIZE)
                  ELSE ProcessarTransacoes_semSentinela(acc, data, i + TRANSACAO_SIZE)
             ELSE ProcessarTransacoes_semSentinela(acc, data, i + TRANSACAO_SIZE)

\* ProcessarTransacoes without the test of the sender's balance.
RECURSIVE ProcessarTransacoes_semTeste(_, _, _)
ProcessarTransacoes_semTeste(acc, data, i) ==
    IF ~(i < MINERADOR_OFFSET) THEN acc
    ELSE LET t == Tripla(data, i)
         IN  IF t.valor > 0
             THEN ProcessarTransacoes_semTeste(AplicarTx(acc, t), data, i + TRANSACAO_SIZE)
             ELSE IF t.origem = 0 /\ t.destino = 0
                  THEN acc
                  ELSE ProcessarTransacoes_semTeste(acc, data, i + TRANSACAO_SIZE)

\* Step 3: the loop over the triples from byte offset i on.
\* acc = [saldos, total, tx].
RECURSIVE ProcessarTransacoes(_, _, _)
ProcessarTransacoes(acc, data, i) ==
    IF ~(i < MINERADOR_OFFSET) THEN acc
    ELSE LET t == Tripla(data, i)
         IN  IF t.valor > 0
             THEN IF acc.saldos[t.origem] >= t.valor
                  THEN ProcessarTransacoes(AplicarTx(acc, t), data, i + TRANSACAO_SIZE)
                  ELSE ProcessarTransacoes(acc, data, i + TRANSACAO_SIZE)
             ELSE IF t.origem = 0 /\ t.destino = 0
                  THEN acc
                  ELSE ProcessarTransacoes(acc, data, i + TRANSACAO_SIZE)

\* AtualizarMaxTx with >= for >: a tie reseeds the list.
AtualizarMaxTx_maiorIgual(g, txNoBloco, numero) ==
    IF txNoBloco >= g.maxTransacoesGlobal
    THEN [g EXCEPT !.maxTransacoesGlobal = txNoBloco,
                   !.listaMaxTx = adicionarRecorde(<<>>, numero)]
    ELSE g

\* Step 4: running maximum of transactions and its tie-set.
AtualizarMaxTx(g, txNoBloco, numero) ==
    IF txNoBloco > g.maxTransacoesGlobal
    THEN [g EXCEPT !.maxTransacoesGlobal = txNoBloco,
                   !.listaMaxTx = adicionarRecorde(<<>>, numero)]
    ELSE IF txNoBloco = g.maxTransacoesGlobal /\ g.maxTransacoesGlobal >= 0
         THEN [g EXCEPT !.listaMaxTx = adicionarRecorde(@, numero)]
         ELSE g

\* AtualizarMinTx without the test that leaves the genesis out.
AtualizarMinTx_comGenesis(g, txNoBloco, numero) ==
    IF txNoBloco < g.minTransacoesGlobal
    THEN [g EXCEPT !.minTransacoesGlobal = txNoBloco,
                   !.listaMinTx = adicionarRecorde(<<>>, numero)]
    ELSE IF txNoBloco = g.minTransacoesGlobal
         THEN [g EXCEPT !.listaMinTx = adicionarRecorde(@, numero)]
         ELSE g

\* Step 5: running minimum of transactions and its tie-set (not the genesis).
AtualizarMinTx(g, txNoBloco, numero) ==
    IF numero > 1
    THEN IF txNoBloco < g.minTransacoesGlobal
         THEN [g EXCEPT !.minTransacoesGlobal = txNoBloco,
                        !.listaMinTx = adicionarRecorde(<<>>, numero)]
         ELSE IF txNoBloco = g.minTransacoesGlobal
              THEN [g EXCEPT !.listaMinTx = adicionarRecorde(@, numero)]
              ELSE g
    ELSE g

\* atualizarEstatisticasGlobais that scans the payload of block 1 as well.
atualizarEstatisticasGlobais_semGenesis(g, b) ==
    LET g1  == Recompensa(g, b.data.minerador)
        acc == ProcessarTransacoes(
                   [saldos |-> g1.saldos, total |-> g1.totalValorTransacionado,
                    tx |-> 0], b.data, 0)
        g2  == [g1 EXCEPT !.saldos = acc.saldos,
                          !.totalValorTransacionado = acc.total]
        g3  == adicionarAoCache(g2, b.numero, acc.tx)
        g4  == AtualizarMaxTx(g3, acc.tx, b.numero)
    IN  AtualizarMinTx(g4, acc.tx, b.numero)

atualizarEstatisticasGlobais(g, b) ==
    LET g1  == Recompensa(g, b.data.minerador)
        acc == IF b.numero > 1
               THEN ProcessarTransacoes(
                        [saldos |-> g1.saldos, total |-> g1.totalValorTransacionado,
                         tx |-> 0], b.data, 0)
               ELSE [saldos |-> g1.saldos, total |-> g1.totalValorTransacionado,
                     tx |-> 0]
        g2  == [g1 EXCEPT !.saldos = acc.saldos,
                          !.totalValorTransacionado = acc.total]
        g3  == adicionarAoCache(g2, b.numero, acc.tx)
        g4  == AtualizarMaxTx(g3, acc.tx, b.numero)
    IN  AtualizarMinTx(g4, acc.tx, b.numero)

----------------------------------------------------------------------------
(* Nonce and miner indices *)

\* (nonce * 2654435761u) >> (32 - HASH_BITS) in 32-bit unsigned arithmetic.
\* 2654435761 = 40503 * 65536 + 31153; the product is formed in 16-bit
\* limbs so that no intermediate value leaves 31 bits.
KNUTH_ALTO == 40503
KNUTH_BAIXO == 31153

\* hashFunction that drops the carry of the low product into the high half.
hashDasMetades_semVaiUm(nh, nl) ==
    LET na   == nl \div 256
        nb   == nl % 256
        x    == (((na * KNUTH_ALTO) % 256) * 256 + nb * KNUTH_ALTO) % 65536
        y    == (nh * KNUTH_BAIXO) % 65536
        top  == (x + y) % 65536
    IN  top \div (2 ^ (16 - HASH_BITS))

\* hashFunction of the nonce nh * 65536 + nl.
hashDasMetades(nh, nl) ==
    LET na   == nl \div 256
        nb   == nl % 256
        \* (nl * KNUTH_ALTO) mod 2^16
        x    == (((na * KNUTH_ALTO) % 256) * 256 + nb * KNUTH_ALTO) % 65536
        \* (nh * KNUTH_BAIXO) mod 2^16
        y    == (nh * KNUTH_BAIXO) % 65536
        low  == nl * KNUTH_BAIXO
        top  == (x + y + (low \div 65536)) % 65536      \* bits 31..16 of the product
    IN  top \div (2 ^ (16 - HASH_BITS))

hashFunction(nonce) == hashDasMetades(nonce \div 65536, nonce % 65536)

\* The number of buckets of tabelaNonce.
TAM_HASH == 2 ^ HASH_BITS

Balde(tabela, pos) == IF pos \in DOMAIN tabela THEN tabela[pos] ELSE <<>>

\* Insertion at the head of the bucket's chain.
inserirNonce(g, nonce, idBloco) ==
    LET pos   == hashFunction(nonce)
        novo  == [nonce |-> nonce, idBloco |-> idBloco]
        lista == <<novo>> \o Balde(g.tabelaNonce, pos)
    IN  [g EXCEPT !.tabelaNonce =
            [p \in (DOMAIN g.tabelaNonce) \cup {pos} |->
                IF p = pos THEN lista ELSE g.tabelaNonce[p]]]

\* inserirMinerador that links the new node at the head of the list.
inserirMinerador_naCabeca(g, endereco, idBloco) ==
    [g EXCEPT !.indiceMinerador[endereco] = <<idBloco>> \o @,
              !.fimMinerador[endereco] = idBloco]

\* Insertion after the tail node; fimMinerador holds the id of the tail node.
inserirMinerador(g, endereco, idBloco) ==
    [g EXCEPT !.indiceMinerador[endereco] = Append(@, idBloco),
              !.fimMinerador[endereco] = idBloco]

----------------------------------------------------------------------------
(* File functions *)

\* flushBuffer that writes one record less than the buffer holds.
flushBuffer_semUltimo(f, arq, buf, n) ==
    IF n > 0 /\ arq # "NULL"
    THEN [disco |-> EscreverNoFim(f, buf, n - 1), contadorBuffer |-> 0]
    ELSE [disco |-> f, contadorBuffer |-> n]

\* flushBuffer without the fseek: the records go where the stream stands and
\* overwrite what is there.
flushBuffer_semSeek(f, arq, buf, n) ==
    IF n > 0 /\ arq # "NULL"
    THEN LET k     == posicao \div TAM_BLOCO
             novos == [i \in 1 .. n |-> Slot(buf, i - 1)]
         IN  [disco |-> IF f.frag = 0 /\ k <= Len(f.regs)
                        THEN [f EXCEPT !.regs = SubSeq(f.regs, 1, k) \o novos
                                                  \o SubSeq(f.regs, k + n + 1, Len(f.regs))]
                        ELSE EscreverNoFim(f, buf, n),
              contadorBuffer |-> 0]
    ELSE [disco |-> f, contadorBuffer |-> n]

\* flushBuffer that leaves contadorBuffer as it was.
flushBuffer_semZerar(f, arq, buf, n) ==
    IF n > 0 /\ arq # "NULL"
    THEN [disco |-> EscreverNoFim(f, buf, n), contadorBuffer |-> n]
    ELSE [disco |-> f, contadorBuffer |-> n]

\* flushBuffer: what the file and contadorBuffer are afterwards.
flushBuffer(f, arq, buf, n) ==
    IF n > 0 /\ arq # "NULL"
    THEN [disco |-> EscreverNoFim(f, buf, n), contadorBuffer |-> 0]
    ELSE [disco |-> f, contadorBuffer |-> n]

\* lerBlocoPorId that seeks to id * sizeof(BlocoMinerado).
lerBlocoPorId_offsetSemMenosUm(id, saida) ==
    IF id < 1 \/ id > totalBlocos
    THEN [ret |-> 0, saida |-> saida]
    ELSE LET blocosPersistidos == totalBlocos - contadorBuffer
         IN  IF id > blocosPersistidos
             THEN [ret |-> 1, saida |-> Slot(buffer, id - blocosPersistidos - 1)]
             ELSE LET r == LerEm(disco, id * TAM_BLOCO, saida)
                  IN  [ret |-> IF r.lidos # 1 THEN 0 ELSE 1, saida |-> r.bloco]

\* lerBlocoPorId that clears the output record before the range test.
lerBlocoPorId_zeraSaida(id, saida) ==
    IF id < 1 \/ id > totalBlocos
    THEN [ret |-> 0, saida |-> BlocoZero]
    ELSE LET blocosPersistidos == totalBlocos - contadorBuffer
         IN  IF id > blocosPersistidos
             THEN [ret |-> 1, saida |-> Slot(buffer, id - blocosPersistidos - 1)]
             ELSE LET r == LerEm(disco, (id - 1) * TAM_BLOCO, saida)
                  IN  [ret |-> IF r.lidos # 1 THEN 0 ELSE 1, saida |-> r.bloco]

\* lerBlocoPorId(id, saida): the return value and what saida holds afterwards.
lerBlocoPorId(id, saida) ==
    IF id < 1 \/ id > totalBlocos
    THEN [ret |-> 0, saida |-> saida]
    ELSE LET blocosPersistidos == totalBlocos - contadorBuffer
         IN  IF id > blocosPersistidos
             THEN [ret |-> 1, saida |-> Slot(buffer, id - blocosPersistidos - 1)]
             ELSE LET r == LerEm(disco, (id - 1) * TAM_BLOCO, saida)
                  IN  [ret |-> IF r.lidos # 1 THEN 0 ELSE 1, saida |-> r.bloco]

buscarBlocoPorId(id, saida) == lerBlocoPorId(id, saida)

\* The file position lerBlocoPorId(id, _) leaves: a read served by the buffer
\* or refused by the range test does not touch the stream; fseek moves it to
\* the record's offset and a whole fread moves it past the record.
PosicaoAposLer(id) ==
    IF id < 1 \/ id > totalBlocos \/ id > totalBlocos - contadorBuffer
    THEN posicao
    ELSE LET offset == (id - 1) * TAM_BLOCO
         IN  IF offset + TAM_BLOCO <= TamanhoArquivo(disco) THEN offset + TAM_BLOCO
             ELSE IF offset > TamanhoArquivo(disco) THEN offset
             ELSE TamanhoArquivo(disco)

\* The caller's side of buscarBlocoPorId: no call made yet, and the record
\* the caller passes in (BlocoMinerado temp), which equals no block.
LeituraNenhuma == [id |-> 0, entrada |-> BlocoZero, ret |-> -1, saida |-> BlocoZero]

SaidaDoChamador == [BlocoZero EXCEPT !.hash = <<-2>>, !.hashAnterior = <<-2>>]

\* listarBlocosPorNonce(nonce): the walk from bucket node k on; ids holds the
\* block ids printed so far, in the order of the walk.
RECURSIVE PercorrerBalde(_, _, _, _)
PercorrerBalde(lista, k, nonce, ids) ==
    IF k > Len(lista) THEN ids
    ELSE IF lista[k].nonce = nonce
            /\ lerBlocoPorId(lista[k].idBloco, BlocoZero).ret # 0
         THEN PercorrerBalde(lista, k + 1, nonce, Append(ids, lista[k].idBloco))
         ELSE PercorrerBalde(lista, k + 1, nonce, ids)

\* listarBlocosPorNonce that prints every node of the bucket.
listarBlocosPorNonce_semComparar(nonce) ==
    LET lista == Balde(tabelaNonce, hashFunction(nonce))
        ids   == [k \in 1 .. Len(lista) |-> lista[k].idBloco]
    IN  [encontrados |-> Len(ids), ids |-> ids]

\* listarBlocosPorNonce(nonce): the return value and the ids printed.
listarBlocosPorNonce(nonce) ==
    LET ids == PercorrerBalde(Balde(tabelaNonce, hashFunction(nonce)), 1, nonce, <<>>)
    IN  [encontrados |-> Len(ids), ids |-> ids]

\* One pass of the body of the for loop: lote[i] of the batch read from byte
\* position pos is indexed under idCalculado.
ProcessarRegistro(g, f, pos, i, idCalculado) ==
    LET b  == LerEm(f, pos + i * TAM_BLOCO, BlocoZero).bloco
        g1 == inserirNonce(g, b.nonce, idCalculado)
        g2 == inserirMinerador(g1, b.data.minerador, idCalculado)
        g3 == atualizarEstatisticasGlobais(g2, b)
    IN  [g3 EXCEPT !.totalBlocos = idCalculado]

\* The for loop over lote[de .. ate-1], in order, idCalculado being the id of
\* lote[de].  The range is halved only to keep the evaluation shallow: the
\* passes still run one after the other, first to last.
RECURSIVE ProcessarLote(_, _, _, _, _, _)
ProcessarLote(g, f, pos, de, ate, idCalculado) ==
    IF ~(de < ate) THEN g
    ELSE IF ate - de = 1 THEN ProcessarRegistro(g, f, pos, de, idCalculado)
    ELSE LET meio == de + ((ate - de) \div 2)
             g1   == ProcessarLote(g, f, pos, de, meio, idCalculado)
         IN  IF g1.totalBlocos = idCalculado + (meio - de) - 1
             THEN ProcessarLote(g1, f, pos, meio, ate, idCalculado + (meio - de))
             ELSE g1

\* The while loop of reconstruirIndicesDoDisco from byte position pos on.
RECURSIVE LerLotes(_, _, _, _)
LerLotes(g, f, pos, idCalculado) ==
    LET r == LerLote(f, pos, READ_LOTE)
    IN  IF r.lidos > 0
        THEN LerLotes(ProcessarLote(g, f, pos, 0, r.lidos, idCalculado),
                      f, r.pos, idCalculado + r.lidos)
        ELSE g

\* reconstruirIndicesDoDisco with idCalculado starting at 0.
reconstruirIndicesDoDisco_idZero(g, f) == LerLotes(g, f, 0, 0)

reconstruirIndicesDoDisco(g, f) == LerLotes(g, f, 0, 1)

\* getUltimoHash that reads the block before the last one.
getUltimoHash_penultimo ==
    IF totalBlocos = 0 THEN HashZero
    ELSE LET r == lerBlocoPorId(IF totalBlocos > 1 THEN totalBlocos - 1 ELSE 1, BlocoZero)
         IN  IF r.ret = 1 THEN r.saida.hash ELSE HashZero

\* getUltimoHash: the 32 bytes copied to the caller.
getUltimoHash ==
    IF totalBlocos = 0 THEN HashZero
    ELSE LET r == lerBlocoPorId(totalBlocos, BlocoZero)
         IN  IF r.ret = 1 THEN r.saida.hash ELSE HashZero

----------------------------------------------------------------------------
(* Inputs *)

\* What a caller chooses for a block: the nonce, the miner byte and the
\* leading transaction triples of the payload.
Entradas ==
    { [nonce |-> 10, minerador |-> 7, tx |-> <<>>],
      [nonce |-> 20, minerador |-> 7, tx |-> <<>>],
      [nonce |-> 10, minerador |-> 9, tx |-> <<>>],
      [nonce |-> 20, minerador |-> 9, tx |-> << <<7, 9, 20>> >>],
      [nonce |-> 10, minerador |-> 9, tx |-> << <<7, 8, 50>> >>],
      [nonce |-> 20, minerador |-> 7, tx |-> << <<9, 7, 60>>, <<7, 9, 20>> >>] }

\* The block chosen for every position after the free prefix.
Canonico(n) ==
    [nonce |-> IF n % 6 = 5 THEN 28667       \* same bucket as nonce 10
               ELSE 10 + 10 * ((n + 1) % 2),
     minerador |-> IF n % 3 = 0 THEN 9 ELSE 7,
     tx |-> IF n % 4 = 0 THEN << <<7, 9, 20>> >>
            ELSE IF n % 5 = 0 THEN << <<9, 8, 30>>, <<7, 7, 10>> >>
            ELSE IF n % 7 = 0 THEN << <<8, 9, 250>>, <<7, 8, 5>> >>
            ELSE IF n % 11 = 0 THEN << <<7, 9, 5>>, <<0, 0, 0>>, <<7, 8, 5>> >>
            ELSE IF n % 13 = 0 THEN << <<3, 4, 0>>, <<7, 9, 5>> >>
            ELSE IF n % 17 = 0
                 THEN [k \in 1 .. (MINERADOR_OFFSET \div TRANSACAO_SIZE) |-> <<7, 8, 1>>]
            ELSE <<>>]

EntradasDe(n) == IF n <= PrefixoLivre THEN Entradas ELSE {Canonico(n)}

\* criarBlocoGenesis / criarProxBloco: block number num on top of a block
\* whose hash is hashAnt.
criarBloco(num, e, hashAnt) ==
    LET data == [tx |-> e.tx, minerador |-> e.minerador]
    IN  [hash |-> calcularHash(num, e.nonce, data), numero |-> num,
         nonce |-> e.nonce, data |-> data, hashAnterior |-> hashAnt]

----------------------------------------------------------------------------
(* Actions *)

Instalar(g) ==
    /\ totalBlocos' = g.totalBlocos
    /\ tabelaNonce' = g.tabelaNonce
    /\ indiceMinerador' = g.indiceMinerador
    /\ fimMinerador' = g.fimMinerador
    /\ saldos' = g.saldos
    /\ blocosMinerados' = g.blocosMinerados
    /\ totalValorTransacionado' = g.totalValorTransacionado
    /\ maiorSaldoAtual' = g.maiorSaldoAtual
    /\ maiorQtdMinerada' = g.maiorQtdMinerada
    /\ maxTransacoesGlobal' = g.maxTransacoesGlobal
    /\ listaMaxTx' = g.listaMaxTx
    /\ minTransacoesGlobal' = g.minTransacoesGlobal
    /\ listaMinTx' = g.listaMinTx
    /\ cacheContagemTx' = g.cacheContagemTx
    /\ cacheTamanho' = g.cacheTamanho
    /\ cacheCapacidade' = g.cacheCapacidade

GlobaisInalterados ==
    UNCHANGED <<totalBlocos, tabelaNonce, indiceMinerador, fimMinerador, saldos,
                blocosMinerados, totalValorTransacionado, maiorSaldoAtual,
                maiorQtdMinerada, maxTransacoesGlobal, listaMaxTx,
                minTransacoesGlobal, listaMinTx, cacheContagemTx, cacheTamanho,
                cacheCapacidade>>

\* IndexarBloco that indexes under the total as it was before the increment.
IndexarBloco_idAntigo(g, b) ==
    LET g0 == [g EXCEPT !.totalBlocos = @ + 1]
        g1 == inserirNonce(g0, b.nonce, g.totalBlocos)
        g2 == inserirMinerador(g1, b.data.minerador, g.totalBlocos)
    IN  atualizarEstatisticasGlobais(g2, b)

\* The globals after adicionarBloco has indexed block b.
IndexarBloco(g, b) ==
    LET g0 == [g EXCEPT !.totalBlocos = @ + 1]
        g1 == inserirNonce(g0, b.nonce, g0.totalBlocos)
        g2 == inserirMinerador(g1, b.data.minerador, g0.totalBlocos)
    IN  atualizarEstatisticasGlobais(g2, b)

\* The globals after adicionarBloco was called on seq[de], ..., seq[ate], one
\* after the other.  The range is halved only to keep the evaluation shallow.
RECURSIVE AdicionarTodos(_, _, _, _)
AdicionarTodos(g, seq, de, ate) ==
    IF de > ate THEN g
    ELSE IF de = ate THEN IndexarBloco(g, seq[de])
    ELSE LET meio == (de + ate) \div 2
             g1   == AdicionarTodos(g, seq, de, meio)
         IN  IF g1.totalBlocos = g.totalBlocos + (meio - de + 1)
             THEN AdicionarTodos(g1, seq, meio + 1, ate)
             ELSE g1

\* The globals of a freshly opened engine after the first k records of seq
\* were appended to it.
IndicesDe(seq, k) == AdicionarTodos(resetarIndices, seq, 1, k)

\* inicializarStorage on a file that does not exist yet.
AbrirNovo ==
    /\ arquivoAtual # "aberto"
    /\ ~disco.existe
    /\ disco' = [disco EXCEPT !.existe = TRUE]
    /\ arquivoAtual' = "aberto"
    /\ Instalar(resetarIndices)
    /\ contadorBuffer' = 0
    /\ buffer' = <<>>
    /\ posicao' = 0
    /\ leitura' = LeituraNenhuma
    /\ persistidosAoAbrir' = 0
    /\ fase' = "criado"
    /\ UNCHANGED <<passados, antesDeFechar, antesDeMatar>>

\* inicializarStorage that opens an existing file as it opens a new one,
\* emptying it.
AbrirExistente_truncando ==
    /\ arquivoAtual # "aberto"
    /\ disco.existe
    /\ Alinhado(disco)
    /\ disco' = [disco EXCEPT !.regs = <<>>, !.antes = 0, !.frag = 0]
    /\ arquivoAtual' = "aberto"
    /\ Instalar(resetarIndices)
    /\ contadorBuffer' = 0
    /\ buffer' = <<>>
    /\ posicao' = 0
    /\ persistidosAoAbrir' = 0
    /\ leitura' = LeituraNenhuma
    /\ fase' = "reconstruido"
    /\ UNCHANGED <<passados, antesDeFechar, antesDeMatar>>

\* inicializarStorage on an existing file.
AbrirExistente ==
    /\ arquivoAtual # "aberto"
    /\ disco.existe
    /\ Alinhado(disco)
    /\ arquivoAtual' = "aberto"
    /\ Instalar(reconstruirIndicesDoDisco(resetarIndices, disco))
    /\ contadorBuffer' = 0
    /\ buffer' = <<>>
    /\ posicao' = TamanhoArquivo(disco)        \* the last fread met the end of the file
    /\ persistidosAoAbrir' = TamanhoArquivo(disco) \div TAM_BLOCO
    /\ leitura' = LeituraNenhuma
    /\ fase' = "reconstruido"
    /\ UNCHANGED <<disco, passados, antesDeFechar, antesDeMatar>>

\* adicionarBloco that flushes the buffer at every call.
adicionarBloco_flushSempre(bloco) ==
    /\ arquivoAtual = "aberto"
    /\ Instalar(IndexarBloco(Globais, bloco))
    /\ LET r == flushBuffer(disco, arquivoAtual, Append(buffer, bloco), contadorBuffer + 1)
       IN  /\ buffer' = <<>>
           /\ disco' = r.disco
           /\ contadorBuffer' = r.contadorBuffer
           /\ posicao' = TamanhoArquivo(r.disco)
    /\ passados' = Append(passados, bloco)
    /\ fase' = "adicionado"
    /\ UNCHANGED <<arquivoAtual, leitura, antesDeFechar, antesDeMatar, persistidosAoAbrir>>

adicionarBloco(bloco) ==
    /\ arquivoAtual = "aberto"
    /\ Instalar(IndexarBloco(Globais, bloco))
    /\ LET buf == Append(buffer, bloco)          \* buffer[contadorBuffer] = *bloco
           n   == contadorBuffer + 1
           r   == IF n = BUFFER_SIZE
                  THEN flushBuffer(disco, arquivoAtual, buf, n)
                  ELSE [disco |-> disco, contadorBuffer |-> n]
       IN  /\ buffer' = SubSeq(buf, 1, r.contadorBuffer)
           /\ disco' = r.disco
           /\ contadorBuffer' = r.contadorBuffer
           /\ posicao' = IF n = BUFFER_SIZE THEN TamanhoArquivo(r.disco) ELSE posicao
    /\ passados' = Append(passados, bloco)
    /\ fase' = "adicionado"
    /\ UNCHANGED <<arquivoAtual, leitura, antesDeFechar, antesDeMatar, persistidosAoAbrir>>

\* The caller mines the next block of the chain and appends it.
Adicionar ==
    /\ totalBlocos < MaxBlocos
    /\ \E e \in EntradasDe(totalBlocos + 1) :
          adicionarBloco(criarBloco(totalBlocos + 1, e,
              IF passados = <<>> THEN HashZero ELSE passados[Len(passados)].hash))

\* finalizarStorage without the call of flushBuffer.
finalizarStorage_semFlush ==
    /\ arquivoAtual = "aberto"
    /\ arquivoAtual' = "fechado"
    /\ Instalar(resetarIndices)
    /\ contadorBuffer' = 0
    /\ buffer' = <<>>
    /\ posicao' = 0
    /\ antesDeFechar' = Globais
    /\ persistidosAoAbrir' = 0
    /\ fase' = "fechado"
    /\ UNCHANGED <<disco, leitura, passados, antesDeMatar>>

finalizarStorage ==
    /\ arquivoAtual = "aberto"
    /\ LET r == flushBuffer(disco, arquivoAtual, buffer, contadorBuffer)
       IN  disco' = r.disco
    /\ arquivoAtual' = "fechado"
    /\ Instalar(resetarIndices)
    /\ contadorBuffer' = 0
    /\ buffer' = <<>>
    /\ posicao' = 0
    /\ antesDeFechar' = Globais
    /\ persistidosAoAbrir' = 0
    /\ fase' = "fechado"
    /\ UNCHANGED <<leitura, passados, antesDeMatar>>

\* A torn write leaves a partial record at the end of the closed log.
CaudaParcial ==
    /\ arquivoAtual # "aberto"
    /\ disco.existe
    /\ disco.frag = 0
    /\ Len(disco.regs) <= MaxFragApos
    /\ disco' = [disco EXCEPT !.frag = FragBytes, !.antes = Len(disco.regs)]
    /\ UNCHANGED <<arquivoAtual, buffer, contadorBuffer, posicao, leitura, passados,
                   antesDeFechar, antesDeMatar, persistidosAoAbrir, fase>>
    /\ GlobaisInalterados

\* The caller appends the next block of the canonical chain.
AdicionarCanonico ==
    /\ totalBlocos < MaxBlocos
    /\ adicionarBloco(criarBloco(totalBlocos + 1, Canonico(totalBlocos + 1),
           IF passados = <<>> THEN HashZero ELSE passados[Len(passados)].hash))

\* The ids a caller asks for: below and above the range, the first block,
\* the last persisted block, the first buffered block and the last block.
IdsLidos ==
    {0, 1, totalBlocos - contadorBuffer, totalBlocos - contadorBuffer + 1,
     totalBlocos, totalBlocos + 1}

\* buscarBlocoPorId(id, &temp) called between two operations.
Ler ==
    /\ \E id \in IdsLidos :
          LET r == buscarBlocoPorId(id, SaidaDoChamador)
          IN  /\ id >= 0
              /\ leitura' = [id |-> id, entrada |-> SaidaDoChamador,
                             ret |-> r.ret, saida |-> r.saida]
              /\ posicao' = PosicaoAposLer(id)
    /\ fase' = "lido"
    /\ UNCHANGED <<disco, arquivoAtual, buffer, contadorBuffer, passados,
                   antesDeFechar, antesDeMatar, persistidosAoAbrir>>
    /\ GlobaisInalterados

\* The process is killed between two operations: its memory is gone, the
\* file keeps what was written to it, and the next process starts from
\* static storage.  The chain that is left is the persisted prefix.
Matar ==
    /\ arquivoAtual = "aberto"
    /\ arquivoAtual' = "NULL"
    /\ Instalar(resetarIndices)
    /\ buffer' = <<>>
    /\ contadorBuffer' = 0
    /\ posicao' = 0
    /\ leitura' = LeituraNenhuma
    /\ antesDeMatar' = [passados |-> passados, totalBlocos |-> totalBlocos,
                        contadorBuffer |-> contadorBuffer]
    /\ passados' = SubSeq(passados, 1, totalBlocos - contadorBuffer)
    /\ persistidosAoAbrir' = 0
    /\ fase' = "morto"
    /\ UNCHANGED <<disco, antesDeFechar>>

\* The engine before inicializarStorage: static storage, zero-initialised.
EngineInicial ==
    /\ arquivoAtual = "NULL"
    /\ buffer = <<>>
    /\ contadorBuffer = 0
    /\ totalBlocos = 0
    /\ tabelaNonce = resetarIndices.tabelaNonce
    /\ indiceMinerador = resetarIndices.indiceMinerador
    /\ fimMinerador = resetarIndices.fimMinerador
    /\ saldos = resetarIndices.saldos
    /\ blocosMinerados = resetarIndices.blocosMinerados
    /\ totalValorTransacionado = 0
    /\ maiorSaldoAtual = 0
    /\ maiorQtdMinerada = 0
    /\ maxTransacoesGlobal = -1
    /\ listaMaxTx = <<>>
    /\ minTransacoesGlobal = MIN_TX_INICIAL
    /\ listaMinTx = <<>>
    /\ cacheContagemTx = <<>>
    /\ cacheTamanho = 0
    /\ cacheCapacidade = 0
    /\ posicao = 0
    /\ leitura = LeituraNenhuma
    /\ antesDeFechar = resetarIndices
    /\ antesDeMatar = [passados |-> <<>>, totalBlocos |-> 0, contadorBuffer |-> 0]
    /\ persistidosAoAbrir = 0
    /\ fase = "inicio"

Init ==
    /\ disco = ArquivoInexistente
    /\ passados = <<>>
    /\ EngineInicial

Next ==
    \/ AbrirNovo
    \/ AbrirExistente
    \/ Adicionar
    \/ finalizarStorage
    \/ CaudaParcial

Spec == Init /\ [][Next]_vars

----------------------------------------------------------------------------
(* Opening a log left by an earlier run *)

\* The chain an earlier run appended: block i is criarBloco of Canonico(i).
BlocoCanonico(i) ==
    criarBloco(i, Canonico(i),
        IF i = 1 THEN HashZero
        ELSE LET a == Canonico(i - 1)
             IN  calcularHash(i - 1, a.nonce, [tx |-> a.tx, minerador |-> a.minerador]))

ArquivoCanonico(m, frag) ==
    [existe |-> TRUE, regs |-> [i \in 1 .. m |-> BlocoCanonico(i)],
     antes |-> m, frag |-> frag]

InitAbrir ==
    /\ disco \in { ArquivoCanonico(m, frag) : m \in 0 .. MaxArquivo, frag \in {0, FragBytes} }
    /\ passados = disco.regs
    /\ EngineInicial

NextAbrir ==
    \/ AbrirExistente
    \/ finalizarStorage

SpecAbrir == InitAbrir /\ [][NextAbrir]_vars

----------------------------------------------------------------------------
(* Reads between the operations, and kills between the operations *)

NextLer ==
    \/ AbrirNovo
    \/ AbrirExistente
    \/ AdicionarCanonico
    \/ finalizarStorage
    \/ Ler

SpecLer == Init /\ [][NextLer]_vars

NextMatar ==
    \/ AbrirNovo
    \/ AbrirExistente
    \/ AdicionarCanonico
    \/ Matar

SpecMatar == Init /\ [][NextMatar]_vars

----------------------------------------------------------------------------
(* Sessions on logs that the engine alone wrote *)

NextCadeia ==
    \/ AbrirNovo
    \/ AbrirExistente
    \/ Adicionar
    \/ finalizarStorage

SpecCadeia == Init /\ [][NextCadeia]_vars

----------------------------------------------------------------------------
(* Sessions between which the log may be deleted *)

\* remove(ARQUIVO_BLOCKCHAIN) after finalizarStorage: the log is gone and
\* with it the chain.
Remover ==
    /\ arquivoAtual = "fechado"
    /\ disco.existe
    /\ disco' = ArquivoInexistente
    /\ passados' = <<>>
    /\ fase' = "removido"
    /\ UNCHANGED <<arquivoAtual, buffer, contadorBuffer, posicao, leitura,
                   antesDeFechar, antesDeMatar, persistidosAoAbrir>>
    /\ GlobaisInalterados

NextReabrir ==
    \/ AbrirNovo
    \/ AbrirExistente
    \/ AdicionarCanonico
    \/ finalizarStorage
    \/ Remover

SpecReabrir == Init /\ [][NextReabrir]_vars

----------------------------------------------------------------------------
(* A bulk write that fails *)

\* flushBuffer when fwrite puts only the first `escritos` records of the
\* buffer in the file: the return value of fwrite is not looked at, and
\* contadorBuffer is set to 0 as after a full write.
flushBufferComFalha(f, arq, buf, n, escritos) ==
    IF n > 0 /\ arq # "NULL"
    THEN [disco |-> EscreverNoFim(f, buf, escritos), contadorBuffer |-> 0]
    ELSE [disco |-> f, contadorBuffer |-> n]

\* adicionarBloco of the block that fills the buffer, the bulk write failing.
adicionarBlocoComFalha(bloco, escritos) ==
    /\ arquivoAtual = "aberto"
    /\ contadorBuffer + 1 = BUFFER_SIZE
    /\ Instalar(IndexarBloco(Globais, bloco))
    /\ LET buf == Append(buffer, bloco)
           n   == contadorBuffer + 1
           r   == flushBufferComFalha(disco, arquivoAtual, buf, n, escritos)
       IN  /\ buffer' = SubSeq(buf, 1, r.contadorBuffer)
           /\ disco' = r.disco
           /\ contadorBuffer' = r.contadorBuffer
           /\ posicao' = TamanhoArquivo(r.disco)
    /\ passados' = Append(passados, bloco)
    /\ fase' = "falhou"
    /\ UNCHANGED <<arquivoAtual, leitura, antesDeFechar, antesDeMatar, persistidosAoAbrir>>

\* The write fails whole, or after half of the buffer.
AdicionarComFalha ==
    /\ totalBlocos < MaxBlocos
    /\ \E escritos \in {0, BUFFER_SIZE \div 2} :
          adicionarBlocoComFalha(
              criarBloco(totalBlocos + 1, Canonico(totalBlocos + 1),
                  IF passados = <<>> THEN HashZero ELSE passados[Len(passados)].hash),
              escritos)

NextFalha ==
    \/ AbrirNovo
    \/ AdicionarCanonico
    \/ AdicionarComFalha
    \/ Ler

SpecFalha == Init /\ [][NextFalha]_vars

----------------------------------------------------------------------------
(* Queries and measures used by the properties *)

\* listarBlocosMinerador without the test count < n.
listarBlocosMinerador_semLimite(endereco, n) ==
    LET lista == indiceMinerador[endereco]
        lidos == [k \in 1 .. Len(lista) |-> lerBlocoPorId(lista[k], BlocoZero)]
        Lido(r) == r.ret = 1
    IN  [k \in 1 .. Len(SelectSeq(lidos, Lido)) |-> SelectSeq(lidos, Lido)[k].saida]

\* listarBlocosMinerador(endereco, n): the blocks printed, in the order
\* printed.  The walk from the head of the list of the address visits the
\* first min(n, length) nodes, and a node is printed when its block is read.
listarBlocosMinerador(endereco, n) ==
    LET lista    == indiceMinerador[endereco]
        visitados == IF n <= 0 THEN 0 ELSE IF n < Len(lista) THEN n ELSE Len(lista)
        lidos    == [k \in 1 .. visitados |-> lerBlocoPorId(lista[k], BlocoZero)]
        Lido(r)  == r.ret = 1
    IN  [k \in 1 .. Len(SelectSeq(lidos, Lido)) |-> SelectSeq(lidos, Lido)[k].saida]

\* relatorioTransacoes: int buckets[62], one per count 0 .. 61.
NUM_BUCKETS == 62

\* Distribuir running from index 0 up to index n - 1.
RECURSIVE Distribuir_crescente(_, _, _)
Distribuir_crescente(bk, blocos, i) ==
    IF i < 0 THEN bk
    ELSE LET q   == obterContagemDoCache(Globais, blocos[i + 1].numero)
             qtd == IF q > NUM_BUCKETS - 1 THEN NUM_BUCKETS - 1 ELSE q
         IN  [Distribuir_crescente(bk, blocos, i - 1) EXCEPT ![qtd] = <<i>> \o @]

\* The loop of relatorioTransacoes that threads the loaded blocks into the
\* buckets, from index i down to index 0; each bucket is a list of indices
\* into blocos, a new index going to the head.
RECURSIVE Distribuir(_, _, _)
Distribuir(bk, blocos, i) ==
    IF i < 0 THEN bk
    ELSE LET q   == obterContagemDoCache(Globais, blocos[i + 1].numero)
             qtd == IF q > NUM_BUCKETS - 1 THEN NUM_BUCKETS - 1 ELSE q
         IN  Distribuir([bk EXCEPT ![qtd] = <<i>> \o @], blocos, i - 1)

\* The printing loop over the buckets de .. ate: for each bucket in turn the
\* blocks of its list from the head on, under the heading of the bucket.
RECURSIVE Emitir(_, _, _, _)
Emitir(bk, blocos, de, ate) ==
    IF de > ate THEN <<>>
    ELSE IF de = ate
         THEN [k \in 1 .. Len(bk[de]) |-> [qtd |-> de, bloco |-> blocos[bk[de][k] + 1]]]
         ELSE LET meio == (de + ate) \div 2
              IN  Emitir(bk, blocos, de, meio) \o Emitir(bk, blocos, meio + 1, ate)

\* relatorioTransacoes(n): the blocks printed, in the order printed, each with
\* the heading it is printed under.
relatorioTransacoes(n) ==
    LET m == IF n > totalBlocos THEN totalBlocos ELSE n
    IN  IF m = 0 THEN <<>>
        ELSE LET blocos == [i \in 1 .. m |-> lerBlocoPorId(i, BlocoZero).saida]
                 vazios == [t \in 0 .. (NUM_BUCKETS - 1) |-> <<>>]
                 bk     == Distribuir(vazios, blocos, m - 1)
             IN  Emitir(bk, blocos, 0, NUM_BUCKETS - 1)

\* The addresses relatorioMaiorMinerador prints.
relatorioMaiorMinerador == { i \in Enderecos : blocosMinerados[i] = maiorQtdMinerada }

\* The addresses relatorioMaisRico prints.
relatorioMaisRico == { i \in Enderecos : saldos[i] = maiorSaldoAtual }

Elementos(lista) == { lista[k] : k \in 1 .. Len(lista) }

\* The sum of f over the addresses de .. ate.
RECURSIVE SomaDe(_, _, _)
SomaDe(f, de, ate) ==
    IF de > ate THEN 0
    ELSE IF de = ate THEN f[de]
    ELSE LET meio == (de + ate) \div 2
         IN  SomaDe(f, de, meio) + SomaDe(f, meio + 1, ate)

Soma(f) == SomaDe(f, 0, NUM_ENDERECOS - 1)

Maior(S) == CHOOSE x \in S : \A y \in S : y <= x

Menor(S) == CHOOSE x \in S : \A y \in S : x <= y

MaiorSaldo == Maior({ saldos[a] : a \in Enderecos })

\* The byte offset at which the j-th record written to the file starts.
PosicaoDoRegistro(f, j) ==
    TAM_BLOCO * (j - 1) + (IF f.frag # 0 /\ j > f.antes THEN f.frag ELSE 0)

RECURSIVE NosNaTabela(_, _)
NosNaTabela(tabela, baldes) ==
    IF baldes = {} THEN 0
    ELSE LET p == CHOOSE q \in baldes : TRUE
         IN  Len(tabela[p]) + NosNaTabela(tabela, baldes \ {p})

Aberto == arquivoAtual = "aberto"

----------------------------------------------------------------------------
(* Properties *)

\* C1: on a log that started empty, the read of every id n in 1 .. totalBlocos
\* succeeds and returns the record passed to the n-th append, be the record
\* in the buffer or in the file.
C1_RoundTrip ==
    (Aberto /\ disco.frag = 0) =>
        /\ totalBlocos = Len(passados)
        /\ \A n \in 1 .. totalBlocos :
              buscarBlocoPorId(n, BlocoZero) = [ret |-> 1, saida |-> passados[n]]

\* C1 witness: 17 appends from the empty log, 16 records flushed, one buffered,
\* ids 16 and 17 read from either side of the flush.
C1_Witness ==
    /\ Aberto /\ fase = "adicionado" /\ disco.frag = 0
    /\ totalBlocos = BUFFER_SIZE + 1 /\ contadorBuffer = 1
    /\ Len(disco.regs) = BUFFER_SIZE
    /\ buscarBlocoPorId(BUFFER_SIZE, BlocoZero).saida = passados[BUFFER_SIZE]
    /\ buscarBlocoPorId(BUFFER_SIZE + 1, BlocoZero).saida = passados[BUFFER_SIZE + 1]

\* C2: after finalizarStorage and inicializarStorage on the same file, every
\* index and aggregate equals what it was right before the close.
C2_Reconstrucao ==
    (fase = "reconstruido" /\ disco.frag = 0) => Globais = antesDeFechar

\* C2 witness: a reopened chain of 17 blocks with applied transfers.
C2_Witness ==
    /\ fase = "reconstruido" /\ disco.frag = 0
    /\ totalBlocos = BUFFER_SIZE + 1
    /\ totalValorTransacionado > 0
    /\ Globais = antesDeFechar

\* C3 (as claimed): after opening a log of m records and a torn tail, the
\* record appended next is written, when flushed, at byte offset m * 256 and
\* read(m+1) keeps returning it.
C3_Claim ==
    (Aberto /\ disco.frag # 0 /\ Len(disco.regs) > disco.antes) =>
        /\ PosicaoDoRegistro(disco, disco.antes + 1) = disco.antes * TAM_BLOCO
        /\ buscarBlocoPorId(disco.antes + 1, BlocoZero)
               = [ret |-> 1, saida |-> passados[disco.antes + 1]]

\* C4: reconstruction processes exactly floor(file length / 256) records, in
\* file order under ids 1, 2, ...; totalBlocos is that count and the buffer
\* is empty.
C4_Reconstroi ==
    fase = "reconstruido" =>
        LET n == TamanhoArquivo(disco) \div TAM_BLOCO
        IN  /\ totalBlocos = n
            /\ contadorBuffer = 0 /\ buffer = <<>>
            /\ cacheTamanho = n
            /\ NosNaTabela(tabelaNonce, DOMAIN tabelaNonce) = n
            /\ Soma(blocosMinerados) = n
            /\ \A i \in 1 .. n :
                  /\ [nonce |-> disco.regs[i].nonce, idBloco |-> i]
                        \in Elementos(Balde(tabelaNonce, hashFunction(disco.regs[i].nonce)))
                  /\ i \in Elementos(indiceMinerador[disco.regs[i].data.minerador])

\* C4 witness: a log of 257 records and a torn tail, reopened.
C4_Witness ==
    /\ fase = "reconstruido"
    /\ disco.frag = FragBytes
    /\ Len(disco.regs) = READ_LOTE + 1
    /\ totalBlocos = READ_LOTE + 1

\* C5 (as claimed): the balances sum to 50 * totalBlocos plus the sum of the
\* values of the applied transfers.
C5_Claim ==
    Aberto => Soma(saldos) = RECOMPENSA * totalBlocos + totalValorTransacionado

\* C5 (amended): the balances sum to 50 * totalBlocos; a transfer moves value
\* and leaves the sum as it was.
C5_Conservacao ==
    Aberto => Soma(saldos) = RECOMPENSA * totalBlocos

\* C5 witness: an append that applied a transfer.
C5_Witness ==
    /\ Aberto /\ fase = "adicionado"
    /\ totalValorTransacionado > 0
    /\ Soma(saldos) = RECOMPENSA * totalBlocos

\* C6 (as claimed): the cached maximum balance is the maximum of the balances.
C6_Claim ==
    Aberto => maiorSaldoAtual = MaiorSaldo

\* C7 (as claimed): relatorioMaisRico reports exactly the addresses whose
\* balance is the maximum, a non-empty set when the chain is not empty.
C7_Claim ==
    (Aberto /\ totalBlocos > 0) =>
        /\ relatorioMaisRico = { a \in Enderecos : saldos[a] = MaiorSaldo }
        /\ relatorioMaisRico # {}

\* C8: the N-th block is recorded under id N in the nonce index, the miner
\* index, the transaction-count cache (slot N-1) and the tie-sets, N being
\* totalBlocos after the append.
C8_IdDoBloco ==
    (Aberto /\ totalBlocos > 0) =>
        LET N == totalBlocos
            b == passados[N]
        IN  /\ NosNaTabela(tabelaNonce, DOMAIN tabelaNonce) = N
            /\ Balde(tabelaNonce, hashFunction(b.nonce))[1]
                   = [nonce |-> b.nonce, idBloco |-> N]
            /\ fimMinerador[b.data.minerador] = N
            /\ indiceMinerador[b.data.minerador][Len(indiceMinerador[b.data.minerador])] = N
            /\ Soma([a \in Enderecos |-> Len(indiceMinerador[a])]) = N
            /\ cacheTamanho = N
            /\ Elementos(listaMaxTx) \subseteq 1 .. N
            /\ Elementos(listaMinTx) \subseteq 1 .. N
            /\ (cacheContagemTx[N] = maxTransacoesGlobal) => listaMaxTx[1] = N
            /\ (N > 1 /\ cacheContagemTx[N] = minTransacoesGlobal) => listaMinTx[1] = N

\* C8 witness: the 17th append, whose block ties the minimum; and a third
\* append whose block ties the maximum.
C8_Witness ==
    /\ Aberto /\ fase = "adicionado"
    /\ \/ /\ totalBlocos = BUFFER_SIZE + 1
          /\ listaMinTx # <<>> /\ listaMinTx[1] = totalBlocos
          /\ Len(listaMinTx) > 1
       \/ /\ totalBlocos = 3
          /\ listaMaxTx # <<>> /\ listaMaxTx[1] = totalBlocos
          /\ Len(listaMaxTx) > 1
    /\ fimMinerador[passados[totalBlocos].data.minerador] = totalBlocos
    /\ cacheTamanho = totalBlocos

\* C9: after k >= 1 appends maxTransacoesGlobal is the largest cached count
\* of blocks 1 .. k and listaMaxTx holds exactly the ids with that count,
\* each once; block 1 takes part.
C9_MaxTx ==
    (Aberto /\ totalBlocos >= 1) =>
        LET k == totalBlocos
            m == Maior({ cacheContagemTx[i] : i \in 1 .. k })
        IN  /\ maxTransacoesGlobal = m
            /\ Elementos(listaMaxTx) = { i \in 1 .. k : cacheContagemTx[i] = m }
            /\ Len(listaMaxTx) = Cardinality(Elementos(listaMaxTx))

\* C9 witness: three blocks without transactions, tie-set {1, 2, 3}.
C9_Witness ==
    /\ Aberto /\ fase = "adicionado"
    /\ totalBlocos = 3
    /\ maxTransacoesGlobal = 0
    /\ Elementos(listaMaxTx) = {1, 2, 3}

\* C10: after k >= 2 appends minTransacoesGlobal is the smallest cached count
\* of blocks 2 .. k and listaMinTx holds exactly the ids in 2 .. k with that
\* count; with fewer than 2 blocks the list is empty and the value is the
\* initial 1000.
C10_MinTx ==
    Aberto =>
        IF totalBlocos >= 2
        THEN LET k == totalBlocos
                 m == Menor({ cacheContagemTx[i] : i \in 2 .. k })
             IN  /\ minTransacoesGlobal = m
                 /\ Elementos(listaMinTx) = { i \in 2 .. k : cacheContagemTx[i] = m }
                 /\ Len(listaMinTx) = Cardinality(Elementos(listaMinTx))
        ELSE listaMinTx = <<>> /\ minTransacoesGlobal = MIN_TX_INICIAL

\* C10 witness: block 1 and block 3 have no transaction, block 2 has one; the
\* minimum is 0 and its tie-set is {3}.
C10_Witness ==
    /\ Aberto /\ fase = "adicionado"
    /\ totalBlocos = 3
    /\ cacheContagemTx = <<0, 1, 0>>
    /\ minTransacoesGlobal = 0
    /\ Elementos(listaMinTx) = {3}

\* The nonces asked for: the three that blocks carry (10 and 28667 share a
\* bucket), one no block carries, and one no block carries in the bucket of 10.
NoncesConsultados == {10, 20, 28667, 30, 39613}

\* C11: for every nonce x, listarBlocosPorNonce(x) prints exactly the ids in
\* 1 .. totalBlocos whose record has nonce x, each once, and returns their
\* number; it returns 0 when no block has that nonce.
C11_PorNonce ==
    Aberto =>
        \A x \in NoncesConsultados :
            LET r     == listarBlocosPorNonce(x)
                comNonce == { i \in 1 .. totalBlocos : passados[i].nonce = x }
            IN  /\ Elementos(r.ids) = comNonce
                /\ Len(r.ids) = Cardinality(comNonce)
                /\ r.encontrados = Cardinality(comNonce)

\* C11 witness: 17 blocks, nonce 28667 in blocks 5, 11 (persisted) and 17
\* (buffered), in a bucket that also chains the nodes of nonce 10.
C11_Witness ==
    /\ Aberto /\ totalBlocos = BUFFER_SIZE + 1 /\ contadorBuffer = 1
    /\ listarBlocosPorNonce(28667) = [encontrados |-> 3, ids |-> <<17, 11, 5>>]
    /\ Len(Balde(tabelaNonce, hashFunction(28667))) > 3
    /\ hashFunction(28667) = hashFunction(10)
    /\ listarBlocosPorNonce(39613).encontrados = 0

\* The addresses that mined a block of the chain.
Mineradores == { passados[i].data.minerador : i \in 1 .. totalBlocos }

\* The ids of lista are strictly ascending from head to tail.
Ascendente(lista) == \A k \in 1 .. Len(lista) - 1 : lista[k] < lista[k + 1]

\* C12: for every address a, indiceMinerador[a] read head to tail is the
\* ids of the blocks mined by a, strictly ascending and each once, and
\* fimMinerador[a] is its last node.
C12_OrdemMinerador ==
    Aberto =>
        /\ \A a \in Mineradores :
              LET lista == indiceMinerador[a]
                  de_a  == { i \in 1 .. totalBlocos : passados[i].data.minerador = a }
              IN  /\ Elementos(lista) = de_a
                  /\ Len(lista) = Cardinality(de_a)
                  /\ Ascendente(lista)
                  /\ fimMinerador[a] = lista[Len(lista)]
        /\ \A a \in Enderecos \ Mineradores :
              indiceMinerador[a] = <<>> /\ fimMinerador[a] = 0

\* C12 witness: a reopened chain of 17 blocks; address 9 mined blocks 3, 6,
\* 9, 12 and 15 among others, address 7 the last one.
C12_Witness ==
    /\ Aberto /\ fase = "reconstruido" /\ totalBlocos = BUFFER_SIZE + 1
    /\ Len(indiceMinerador[9]) >= 5 /\ Len(indiceMinerador[7]) >= 10
    /\ {3, 6, 9, 12, 15} \subseteq Elementos(indiceMinerador[9])
    /\ fimMinerador[7] = 17 /\ fimMinerador[9] = 15

\* C13: the append that brings contadorBuffer to 16 writes the 16 buffered
\* records to the end of the log and resets contadorBuffer, and no other
\* append writes: contadorBuffer stays in 0 .. 15, it counts the appends of
\* the session modulo 16, the log grows by whole groups of 16 records in
\* append order, and on a log that started empty the file holds
\* 256 * 16 * floor(k / 16) bytes after k appends.
C13_FlushAos16 ==
    /\ contadorBuffer \in 0 .. (BUFFER_SIZE - 1)
    /\ (Aberto /\ disco.frag = 0) =>
          LET k == totalBlocos - persistidosAoAbrir
          IN  /\ contadorBuffer = k % BUFFER_SIZE
              /\ Len(disco.regs) = persistidosAoAbrir + BUFFER_SIZE * (k \div BUFFER_SIZE)
              /\ disco.regs = SubSeq(passados, 1, Len(disco.regs))
              /\ buffer = SubSeq(passados, Len(disco.regs) + 1, totalBlocos)
              /\ persistidosAoAbrir = 0 =>
                    TamanhoArquivo(disco) = TAM_BLOCO * BUFFER_SIZE * (k \div BUFFER_SIZE)

\* C13 witness: the 16th append on a log that started empty: the buffer is
\* empty again and the file holds 4096 bytes.
C13_Witness ==
    /\ Aberto /\ fase = "adicionado" /\ persistidosAoAbrir = 0 /\ disco.frag = 0
    /\ totalBlocos = BUFFER_SIZE /\ contadorBuffer = 0 /\ buffer = <<>>
    /\ TamanhoArquivo(disco) = 4096
    /\ disco.regs = passados

\* C14 (as claimed): in every state reached by open, append, read and close
\* on a log without a torn tail, totalBlocos is the number of whole records
\* in the log plus contadorBuffer.
C14_Claim ==
    disco.frag = 0 =>
        totalBlocos = (TamanhoArquivo(disco) \div TAM_BLOCO) + contadorBuffer

\* C14 (amended): while the engine is open, totalBlocos is the number of
\* whole records in the log plus contadorBuffer; before the first open and
\* after finalizarStorage totalBlocos and contadorBuffer are 0, whatever the
\* log holds.
C14_TotalAberto ==
    /\ (Aberto /\ disco.frag = 0) =>
          /\ totalBlocos = (TamanhoArquivo(disco) \div TAM_BLOCO) + contadorBuffer
          /\ contadorBuffer = Len(buffer)
    /\ ~Aberto => (totalBlocos = 0 /\ contadorBuffer = 0)

\* C14 witness: a read served by the file in a reopened engine that holds 16
\* records in the log and one in the buffer.
C14_Witness ==
    /\ Aberto /\ fase = "lido" /\ leitura.ret = 1 /\ leitura.id = BUFFER_SIZE
    /\ persistidosAoAbrir > 0
    /\ Len(disco.regs) = BUFFER_SIZE /\ contadorBuffer = 1
    /\ totalBlocos = BUFFER_SIZE + 1

\* C15: after finalizarStorage the log holds every appended record in append
\* order, 256 bytes for each block the engine counted before the close,
\* however many of them were still buffered; and the reopened engine has the
\* same totalBlocos and aggregates as before the close and reads its last
\* block.
C15_FecharPersiste ==
    /\ (fase = "fechado" /\ disco.frag = 0) =>
          /\ disco.regs = passados
          /\ TamanhoArquivo(disco) = TAM_BLOCO * antesDeFechar.totalBlocos
    /\ (fase = "reconstruido" /\ disco.frag = 0) =>
          /\ totalBlocos = antesDeFechar.totalBlocos
          /\ Globais = antesDeFechar
          /\ totalBlocos > 0 =>
                buscarBlocoPorId(totalBlocos, SaidaDoChamador)
                    = [ret |-> 1, saida |-> passados[totalBlocos]]

\* C15 witness: 17 appends, close, reopen: the log holds 17 records, the last
\* of which the close flushed from the buffer, and read(17) succeeds.
C15_Witness ==
    /\ fase = "reconstruido" /\ disco.frag = 0
    /\ antesDeFechar.totalBlocos = BUFFER_SIZE + 1
    /\ totalBlocos = BUFFER_SIZE + 1
    /\ TamanhoArquivo(disco) = TAM_BLOCO * (BUFFER_SIZE + 1)
    /\ buscarBlocoPorId(BUFFER_SIZE + 1, SaidaDoChamador).ret = 1
    /\ Globais = antesDeFechar

\* C16: a kill between two operations loses the buffered blocks and no
\* other: at most 15, the log holding the first totalBlocos - contadorBuffer
\* records in order; and the next inicializarStorage rebuilds that prefix,
\* with the indices and aggregates that appending the prefix alone gives.
C16_Recuperacao ==
    /\ fase = "morto" =>
          LET persistidos == antesDeMatar.totalBlocos - antesDeMatar.contadorBuffer
          IN  /\ antesDeMatar.contadorBuffer <= BUFFER_SIZE - 1
              /\ antesDeMatar.totalBlocos = Len(antesDeMatar.passados)
              /\ Len(disco.regs) = persistidos
              /\ disco.regs = SubSeq(antesDeMatar.passados, 1, persistidos)
    /\ fase = "reconstruido" =>
          /\ totalBlocos = antesDeMatar.totalBlocos - antesDeMatar.contadorBuffer
          /\ totalBlocos = Len(disco.regs)
          /\ Globais = IndicesDe(antesDeMatar.passados, totalBlocos)

\* C16 witness: a kill after 17 appends, with one block in the buffer, and
\* the reopened engine holding the chain of the first 16.
C16_Witness ==
    /\ fase = "reconstruido"
    /\ antesDeMatar.totalBlocos = BUFFER_SIZE + 1
    /\ antesDeMatar.contadorBuffer = 1
    /\ totalBlocos = BUFFER_SIZE
    /\ totalValorTransacionado > 0
    /\ Globais = IndicesDe(antesDeMatar.passados, BUFFER_SIZE)

\* C17: buscarBlocoPorId with id 0 or id above totalBlocos returns 0, leaves
\* the caller's record as it was, and leaves totalBlocos, the buffer, the
\* indices, the aggregates and the log file as they were.
C17_LeituraForaDoIntervalo ==
    [][ (fase' = "lido" /\ (leitura'.id = 0 \/ leitura'.id > totalBlocos)) =>
            /\ leitura'.ret = 0
            /\ leitura'.saida = leitura'.entrada
            /\ leitura'.entrada = SaidaDoChamador
            /\ UNCHANGED <<disco, arquivoAtual, buffer, contadorBuffer, posicao>>
            /\ GlobaisInalterados ]_vars

\* C17 witness: a read of id 18 in a chain of 17 blocks, refused.
C17_Witness ==
    /\ Aberto /\ fase = "lido"
    /\ totalBlocos = BUFFER_SIZE + 1
    /\ leitura.id = totalBlocos + 1
    /\ leitura.ret = 0
    /\ leitura.saida = SaidaDoChamador

\* C18: a successful read leaves totalBlocos, the buffer, the indices, the
\* aggregates and the log as they were; the same read made again returns the
\* same record; and with reads between the appends, the log still holds the
\* appended records in append order, written in whole groups of 16 right
\* after the records the log held at open.
C18_LeitorSemEfeito ==
    /\ [][ (fase' = "lido" /\ leitura'.ret = 1) =>
              /\ UNCHANGED <<disco, arquivoAtual, buffer, contadorBuffer>>
              /\ GlobaisInalterados ]_vars
    /\ []((fase = "lido" /\ leitura.ret = 1) =>
              /\ leitura.saida = passados[leitura.id]
              /\ buscarBlocoPorId(leitura.id, SaidaDoChamador)
                     = [ret |-> 1, saida |-> leitura.saida])
    /\ [](Aberto =>
              /\ disco.regs = SubSeq(passados, 1, Len(disco.regs))
              /\ Len(disco.regs) = persistidosAoAbrir
                     + BUFFER_SIZE * ((totalBlocos - persistidosAoAbrir) \div BUFFER_SIZE))

\* C18 witness: an engine opened on a log of 2 records reads block 1 from
\* the file, which leaves the stream at byte 256, and the 16th append of the
\* session then flushes: the log holds the 18 records in order.
C18_Witness ==
    /\ Aberto /\ fase = "adicionado"
    /\ persistidosAoAbrir = 2
    /\ leitura.id = 1 /\ leitura.ret = 1
    /\ totalBlocos = 2 + BUFFER_SIZE /\ contadorBuffer = 0
    /\ disco.regs = passados
    /\ posicao = TamanhoArquivo(disco)

\* C19: the mined counts sum to totalBlocos, and blocosMinerados[a] is the
\* number of blocks whose miner byte is a.
C19_ContagemMinerados ==
    Aberto =>
        /\ Soma(blocosMinerados) = totalBlocos
        /\ \A a \in Mineradores :
              blocosMinerados[a]
                  = Cardinality({ i \in 1 .. totalBlocos : passados[i].data.minerador = a })
        /\ \A a \in Enderecos \ Mineradores : blocosMinerados[a] = 0

\* C19 witness: a reopened chain of 17 blocks, 5 of them mined by address 9
\* or more and the rest by address 7.
C19_Witness ==
    /\ Aberto /\ fase = "reconstruido" /\ totalBlocos = BUFFER_SIZE + 1
    /\ blocosMinerados[9] >= 5 /\ blocosMinerados[7] >= 10
    /\ blocosMinerados[7] + blocosMinerados[9] = totalBlocos

\* The range tx[de .. ate] is met in halves; fim tells that <<0, 0, 0>> was
\* met and nothing after it counts.
RECURSIVE AplicaveisEntre(_, _, _, _)
AplicaveisEntre(a, tx, de, ate) ==
    IF a.fim \/ de > ate THEN a
    ELSE IF de = ate
         THEN LET o == tx[de][1]
                  d == tx[de][2]
                  v == tx[de][3]
              IN  IF tx[de] = <<0, 0, 0>> THEN [a EXCEPT !.fim = TRUE]
                  ELSE IF v > 0 /\ v <= a.saldos[o]
                       THEN [saldos |-> [[a.saldos EXCEPT ![o] = @ - v]
                                             EXCEPT ![d] = @ + v],
                             total |-> a.total + v,
                             feitas |-> Append(a.feitas, tx[de]),
                             fim |-> FALSE]
                       ELSE a
         ELSE LET meio == (de + ate) \div 2
              IN  AplicaveisEntre(AplicaveisEntre(a, tx, de, meio), tx, meio + 1, ate)

\* The transfers among tx[k], tx[k+1], ... that change the balances when met
\* in that order with the balances s: those with a positive value that the
\* sender can pay at that moment, up to the first triple <<0, 0, 0>>.
\* feitas collects them, total adds their values.
Aplicaveis(s, tx, k, r) ==
    LET a == AplicaveisEntre([saldos |-> s, total |-> r.total,
                              feitas |-> r.feitas, fim |-> FALSE],
                             tx, k, Len(tx))
    IN  [saldos |-> a.saldos, total |-> a.total, feitas |-> a.feitas]

\* The chain passados[1 .. k] replayed: the balances, the value moved, and
\* for each block the transfers that were applied.
RECURSIVE Historico(_)
Historico(k) ==
    IF k = 0
    THEN [saldos |-> [a \in Enderecos |-> 0], total |-> 0, porBloco |-> <<>>]
    ELSE LET h  == Historico(k - 1)
             b  == passados[k]
             s1 == [h.saldos EXCEPT ![b.data.minerador] = @ + RECOMPENSA]
             r  == IF k > 1 /\ Len(h.porBloco) = k - 1
                   THEN Aplicaveis(s1, b.data.tx, 1, [total |-> h.total, feitas |-> <<>>])
                   ELSE [saldos |-> s1, total |-> h.total, feitas |-> <<>>]
         IN  [saldos |-> r.saldos, total |-> r.total,
              porBloco |-> Append(h.porBloco, r.feitas)]

\* C20: cacheContagemTx[i-1] is the number of transfers of block i that were
\* applied, each of which debited the sender, credited the receiver and was
\* added to totalValorTransacionado; not the number of triples written.
C20_CacheAplicadas ==
    Aberto =>
        LET h == Historico(totalBlocos)
        IN  /\ cacheTamanho = totalBlocos
            /\ \A i \in 1 .. totalBlocos :
                  /\ cacheContagemTx[i] = Len(h.porBloco[i])
                  /\ obterContagemDoCache(Globais, i) = Len(h.porBloco[i])
            /\ saldos = h.saldos
            /\ totalValorTransacionado = h.total

\* C20 witness: block 7 carries two triples; the first asks for more than
\* the sender has and is refused, the second is applied: the cache holds 1.
C20_Witness ==
    /\ Aberto /\ fase = "adicionado" /\ totalBlocos >= 7
    /\ Len(passados[7].data.tx) = 2
    /\ passados[7].data.tx[1][3] > 0
    /\ cacheContagemTx[7] = 1
    /\ Historico(7).porBloco[7] = << passados[7].data.tx[2] >>

\* The payload scan run on the triples tx against the balances s.
Varredura(s, tx) == Aplicaveis(s, tx, 1, [total |-> 0, feitas |-> <<>>])

\* C21 (as claimed): the cached count of block i is the count the payload
\* scan gives on the payload of block i against the balances as they were
\* before block i was appended, its own reward not yet credited.
C21_Claim ==
    Aberto =>
        \A i \in 1 .. totalBlocos :
            cacheContagemTx[i]
                = IF i = 1 THEN 0
                  ELSE Len(Varredura(Historico(i - 1).saldos, passados[i].data.tx).feitas)

\* The triples of tx with the k-th left out.
SemATripla(tx, k) == SubSeq(tx, 1, k - 1) \o SubSeq(tx, k + 1, Len(tx))

\* The globals that matter to the scan, as block number n found them: the
\* balances and the value sum after blocks 1 .. n-1.
AntesDoBloco(n) ==
    LET h == Historico(n - 1)
    IN  [resetarIndices EXCEPT !.saldos = h.saldos,
                               !.totalValorTransacionado = h.total]

\* The positions of the triples of block number n that ask for more than
\* the sender has when the scan meets them: after blocks 1 .. n-1, the
\* reward of block n and the triples before them.
Recusadas(n) ==
    LET b  == passados[n]
        tx == b.data.tx
        comRecompensa == [Historico(n - 1).saldos
                              EXCEPT ![b.data.minerador] = @ + RECOMPENSA]
    IN  { k \in 1 .. Len(tx) :
            /\ \A j \in 1 .. k : tx[j] # <<0, 0, 0>>
            /\ tx[k][3] > Varredura(comRecompensa, SubSeq(tx, 1, k - 1)).saldos[tx[k][1]] }

\* What atualizarEstatisticasGlobais leaves in the financial state when block
\* number n, with the payload tx, is appended to the blocks before it:
\* balances, value sum and the count of the block.
EfeitoDoBloco(n, tx) ==
    LET r == atualizarEstatisticasGlobais(AntesDoBloco(n),
                                          [passados[n] EXCEPT !.data.tx = tx])
    IN  [saldos |-> r.saldos, total |-> r.totalValorTransacionado,
         tx |-> obterContagemDoCache(r, n)]

\* C22: a transfer that asks for more than the sender has when it is scanned
\* changes no balance and not the value sum and is not counted, and stops
\* neither the scan nor the append: the block leaves what the same block
\* without that triple leaves, the triples after it included, and it is
\* counted in totalBlocos, indexed and stored.
C22_Recusada ==
    (Aberto /\ totalBlocos >= 2) =>
        LET n == totalBlocos
            b == passados[n]
            e == EfeitoDoBloco(n, b.data.tx)
        IN  \A k \in Recusadas(n) :
                /\ e = EfeitoDoBloco(n, SemATripla(b.data.tx, k))
                /\ saldos = e.saldos
                /\ totalValorTransacionado = e.total
                /\ cacheContagemTx[n] = e.tx
                /\ cacheContagemTx[n] <= Len(b.data.tx) - 1
                /\ n \in Elementos(indiceMinerador[b.data.minerador])
                /\ [nonce |-> b.nonce, idBloco |-> n]
                       \in Elementos(Balde(tabelaNonce, hashFunction(b.nonce)))
                /\ buscarBlocoPorId(n, SaidaDoChamador).ret = 1

\* C22 witness: block 7 is appended as the last block; its first triple asks
\* address 8 for 250, which it does not have, and its second triple is
\* applied after it.
C22_Witness ==
    /\ Aberto /\ fase = "adicionado" /\ totalBlocos = 7
    /\ Recusadas(7) = {1}
    /\ cacheContagemTx[7] = 1
    /\ totalValorTransacionado
           = Historico(6).total + passados[7].data.tx[2][3]

\* C23: inicializarStorage on an existing log followed by finalizarStorage,
\* with no append in between, leaves the log as it was, record for record
\* and torn tail included; and so does every further such pair.
C23_AbrirFecharSemEfeito ==
    [][ /\ disco' = disco
        /\ (fase' = "fechado") => (contadorBuffer = 0 /\ buffer = <<>>) ]_vars

\* C23 witness: a log of 257 records and a torn tail, opened and closed.
C23_Witness ==
    /\ fase = "fechado"
    /\ antesDeFechar.totalBlocos = READ_LOTE + 1
    /\ disco = ArquivoCanonico(READ_LOTE + 1, FragBytes)
    /\ TamanhoArquivo(disco) = TAM_BLOCO * (READ_LOTE + 1) + FragBytes

\* C24: getUltimoHash gives the hash of the block appended last, read from the
\* buffer or from the log, and HashZero when there is no block.  Logs that
\* hold a record after a torn tail are left to C3.
C24_UltimoHash ==
    (Aberto /\ ~(disco.frag # 0 /\ Len(disco.regs) > disco.antes)) =>
        /\ totalBlocos = 0 => getUltimoHash = HashZero
        /\ totalBlocos > 0 =>
              /\ getUltimoHash = passados[totalBlocos].hash
              /\ getUltimoHash
                    = calcularHash(totalBlocos, passados[totalBlocos].nonce,
                                   passados[totalBlocos].data)
              /\ getUltimoHash # HashZero

\* C24 witness: the 16th append has just flushed the buffer, so the last
\* block is read from the log; the block before it has another hash.
C24_Witness ==
    /\ Aberto /\ fase = "adicionado"
    /\ totalBlocos = BUFFER_SIZE /\ contadorBuffer = 0
    /\ Len(disco.regs) = BUFFER_SIZE
    /\ getUltimoHash = passados[BUFFER_SIZE].hash
    /\ getUltimoHash # passados[BUFFER_SIZE - 1].hash

\* C25 (as claimed): the reward of block n is credited after the payload of
\* block n was scanned: the balances after block n >= 2 are those the scan
\* gives against the balances after block n-1, plus 50 at the miner.
C25_Claim ==
    (Aberto /\ totalBlocos >= 2) =>
        LET n == totalBlocos
            b == passados[n]
        IN  saldos = [Varredura(Historico(n - 1).saldos, b.data.tx).saldos
                          EXCEPT ![b.data.minerador] = @ + RECOMPENSA]

\* C26 (as claimed): after a bulk write that failed, every block appended so
\* far is still read back as it was appended.
C26_Claim ==
    Aberto =>
        \A n \in 1 .. totalBlocos :
            buscarBlocoPorId(n, SaidaDoChamador) = [ret |-> 1, saida |-> passados[n]]

\* The triples of tx before the first <<0, 0, 0>>.
AteSentinela(tx) ==
    LET zeros == { k \in 1 .. Len(tx) : tx[k] = <<0, 0, 0>> }
    IN  IF zeros = {} THEN tx
        ELSE SubSeq(tx, 1, (CHOOSE k \in zeros : \A j \in zeros : k <= j) - 1)

TemValor(t) == t[3] > 0

\* The triples of tx that the scan can act on: those before the first
\* <<0, 0, 0>> that carry a value.
Ativas(tx) == SelectSeq(AteSentinela(tx), TemValor)

\* C27: the scan of a block with number > 1 meets the triples in order from
\* offset 0 to offset 180, ends at the first triple (0, 0, 0) and passes over
\* a triple with value 0 and another sender or receiver: the block leaves
\* what the same block leaves with only the triples before the first
\* (0, 0, 0), and what it leaves with the valueless triples removed too; and
\* what it leaves is what meeting those triples one after the other gives.
C27_Sentinela ==
    (Aberto /\ totalBlocos >= 2) =>
        LET n  == totalBlocos
            tx == passados[n].data.tx
            e  == EfeitoDoBloco(n, Ativas(tx))
            h  == Historico(n)
        IN  /\ (AteSentinela(tx) # tx) => EfeitoDoBloco(n, tx) = EfeitoDoBloco(n, AteSentinela(tx))
            /\ (Ativas(tx) # tx) => EfeitoDoBloco(n, tx) = e
            /\ saldos = e.saldos
            /\ totalValorTransacionado = e.total
            /\ cacheContagemTx[n] = e.tx
            /\ cacheContagemTx[n] <= Len(Ativas(tx))
            /\ cacheContagemTx[n] = Len(h.porBloco[n])
            /\ saldos = h.saldos

\* C27 witness: 17 blocks; block 11 has a triple after (0, 0, 0), which is
\* not applied; block 13 starts with a valueless triple and its second
\* triple is applied; the 61 triples of block 17, the last at offset 180,
\* are all applied.
C27_Witness ==
    /\ Aberto /\ fase = "adicionado" /\ totalBlocos = BUFFER_SIZE + 1
    /\ Len(passados[11].data.tx) = 3 /\ Len(AteSentinela(passados[11].data.tx)) = 1
    /\ cacheContagemTx[11] = 1
    /\ Len(passados[13].data.tx) = 2 /\ Len(Ativas(passados[13].data.tx)) = 1
    /\ cacheContagemTx[13] = 1
    /\ TRANSACAO_SIZE * (Len(passados[17].data.tx) - 1) = MINERADOR_OFFSET - TRANSACAO_SIZE
    /\ cacheContagemTx[17] = Len(passados[17].data.tx)

\* The values of the transfers in the sequence feitas, added up.
ValorDe(feitas) ==
    SomaDe([k \in 1 .. Len(feitas) |-> feitas[k][3]], 1, Len(feitas))

\* The values of the transfers applied in blocks 1 .. k, added up.
ValorAplicado(porBloco, k) ==
    SomaDe([i \in 1 .. k |-> ValorDe(porBloco[i])], 1, k)

\* The balances s after the transfers of feitas: each address has what it
\* had, less the values it sent, plus the values it received.
Transferidos(s, feitas) ==
    LET n        == Len(feitas)
        partes   == { feitas[k][1] : k \in 1 .. n } \cup { feitas[k][2] : k \in 1 .. n }
        saiu(a)  == SomaDe([k \in 1 .. n |-> IF feitas[k][1] = a THEN feitas[k][3] ELSE 0], 1, n)
        entrou(a) == SomaDe([k \in 1 .. n |-> IF feitas[k][2] = a THEN feitas[k][3] ELSE 0], 1, n)
    IN  [a \in Enderecos |-> IF a \in partes THEN s[a] - saiu(a) + entrou(a) ELSE s[a]]

\* C28: a transfer that is applied takes its value from the sender and gives
\* it to the receiver (nothing changes when they are the same address), adds
\* its value to totalValorTransacionado and one to the count of the block;
\* and totalValorTransacionado is the sum of the values of all transfers
\* applied in all blocks.
C28_EfeitoDaTransferencia ==
    Aberto =>
        LET n == totalBlocos
            h == Historico(n)
        IN  /\ Len(h.porBloco) = n
            /\ totalValorTransacionado = ValorAplicado(h.porBloco, n)
            /\ \A i \in 1 .. n : cacheContagemTx[i] = Len(h.porBloco[i])
            /\ n >= 1 =>
                  LET hAntes == Historico(n - 1)
                      antes  == [hAntes.saldos
                                    EXCEPT ![passados[n].data.minerador] = @ + RECOMPENSA]
                  IN  /\ saldos = Transferidos(antes, h.porBloco[n])
                      /\ totalValorTransacionado = hAntes.total + ValorDe(h.porBloco[n])

\* C28 witness: block 5 is appended last; its two transfers are applied, the
\* second from address 7 to address 7, which leaves the balance of 7 as the
\* first transfer left it and adds 10 to the value sum.
C28_Witness ==
    /\ Aberto /\ fase = "adicionado" /\ totalBlocos = 5
    /\ passados[5].data.tx = << <<9, 8, 30>>, <<7, 7, 10>> >>
    /\ cacheContagemTx[5] = 2
    /\ totalValorTransacionado = Historico(4).total + 40
    /\ saldos[7] = Historico(4).saldos[7] + RECOMPENSA
    /\ saldos[8] = Historico(4).saldos[8] + 30
    /\ saldos[9] = Historico(4).saldos[9] - 30

\* C29: block 1 is never scanned for transfers, whatever its payload holds,
\* when appended and when replayed: its count is 0, and all it leaves is 50
\* at the miner's balance and 1 at the miner's count of mined blocks.
C29_Genesis ==
    (Aberto /\ totalBlocos >= 1) =>
        LET m == passados[1].data.minerador
        IN  /\ cacheContagemTx[1] = 0
            /\ EfeitoDoBloco(1, passados[1].data.tx) = EfeitoDoBloco(1, <<>>)
            /\ totalBlocos = 1 =>
                  /\ saldos = [a \in Enderecos |-> IF a = m THEN RECOMPENSA ELSE 0]
                  /\ blocosMinerados = [a \in Enderecos |-> IF a = m THEN 1 ELSE 0]
                  /\ totalValorTransacionado = 0

\* C29 witness: a log of one block is replayed; the payload of the block
\* holds a transfer that its miner could pay out of the reward.
C29_Witness ==
    /\ Aberto /\ fase = "reconstruido" /\ totalBlocos = 1
    /\ passados[1].data.minerador = 7
    /\ passados[1].data.tx = << <<9, 7, 60>>, <<7, 9, 20>> >>
    /\ saldos[7] = RECOMPENSA /\ saldos[9] = 0
    /\ cacheContagemTx[1] = 0

\* The number of blocks of the chain that address a mined.
MineradosPor(a) ==
    Cardinality({ i \in 1 .. totalBlocos : passados[i].data.minerador = a })

\* C30: after every append and after reconstruction maiorQtdMinerada is the
\* maximum of blocosMinerados, and relatorioMaiorMinerador lists the
\* addresses that mined the most blocks of the chain and no other.
C30_MaiorMinerador ==
    Aberto =>
        /\ maiorQtdMinerada = Maior({ blocosMinerados[a] : a \in Enderecos })
        /\ totalBlocos = 0 => (maiorQtdMinerada = 0 /\ relatorioMaiorMinerador = Enderecos)
        /\ totalBlocos > 0 =>
              /\ maiorQtdMinerada = Maior({ MineradosPor(a) : a \in Mineradores })
              /\ relatorioMaiorMinerador
                    = { a \in Mineradores :
                          \A c \in Mineradores : MineradosPor(c) <= MineradosPor(a) }

\* C30 witness: a reopened chain of 4 blocks, two mined by address 7 and two
\* by address 9: both are reported.
C30_Witness ==
    /\ Aberto /\ fase = "reconstruido" /\ totalBlocos = 4
    /\ MineradosPor(7) = 2 /\ MineradosPor(9) = 2
    /\ maiorQtdMinerada = 2
    /\ relatorioMaiorMinerador = {7, 9}

\* The empty state of the engine, field by field.
GlobaisVazios ==
    [totalBlocos |-> 0, tabelaNonce |-> <<>>,
     indiceMinerador |-> [a \in Enderecos |-> <<>>],
     fimMinerador |-> [a \in Enderecos |-> 0],
     saldos |-> [a \in Enderecos |-> 0],
     blocosMinerados |-> [a \in Enderecos |-> 0],
     totalValorTransacionado |-> 0,
     maiorSaldoAtual |-> 0, maiorQtdMinerada |-> 0,
     maxTransacoesGlobal |-> -1, listaMaxTx |-> <<>>,
     minTransacoesGlobal |-> MIN_TX_INICIAL, listaMinTx |-> <<>>,
     cacheContagemTx |-> <<>>, cacheTamanho |-> 0, cacheCapacidade |-> 0]

\* C31: right after inicializarStorage, whatever was appended, closed or
\* deleted before, totalBlocos, the indices, the aggregates, the tie-sets and
\* the cache are those that appending the records of the file, and nothing
\* else, to an empty engine gives, and the buffer is empty; for a new file
\* they are the empty state.
C31_SemRestos ==
    /\ fase = "criado" =>
          /\ Globais = GlobaisVazios
          /\ contadorBuffer = 0 /\ buffer = <<>>
          /\ disco.regs = <<>>
    /\ (fase = "reconstruido" /\ disco.frag = 0) =>
          /\ Globais = AdicionarTodos(GlobaisVazios, disco.regs, 1, Len(disco.regs))
          /\ contadorBuffer = 0 /\ buffer = <<>>

\* C31 witness: a chain of 17 blocks was appended and closed, the log was
\* deleted, and the engine is opened on a new log: nothing of the 17 blocks
\* is left.
C31_Witness ==
    /\ fase = "criado"
    /\ antesDeFechar.totalBlocos = BUFFER_SIZE + 1
    /\ antesDeFechar.totalValorTransacionado > 0
    /\ totalBlocos = 0 /\ saldos = [a \in Enderecos |-> 0]
    /\ TamanhoArquivo(disco) = 0

\* The bytes of the file f are the first bytes of the file g.  A file that
\* does not exist holds no bytes.
EhPrefixo(f, g) ==
    \/ ~f.existe
    \/ /\ g.existe
       /\ Len(f.regs) <= Len(g.regs)
       /\ SubSeq(g.regs, 1, Len(f.regs)) = f.regs
       /\ f.frag # 0 => (g.frag = f.frag /\ g.antes = f.antes)
       /\ (f.frag = 0 /\ g.frag # 0) => g.antes >= Len(f.regs)

\* C32: no operation of the engine (open, append, read, close, reopen)
\* rewrites or removes a byte of the log: the log before every step is a
\* prefix of the log after it, hence the log at any moment is a prefix of the
\* log at any later moment.
C32_SoAcrescenta ==
    [][ /\ EhPrefixo(disco, disco')
        /\ disco.existe => disco'.existe
        /\ TamanhoArquivo(disco') >= TamanhoArquivo(disco) ]_vars

\* C32 witness: an engine opened on a log of one record read that record,
\* which left the stream at byte 256, and its 16th append flushed: the log
\* holds the old record followed by the 16 new ones.
C32_Witness ==
    /\ Aberto /\ fase = "adicionado"
    /\ persistidosAoAbrir = 1
    /\ leitura.id = 1 /\ leitura.ret = 1
    /\ Len(disco.regs) = 1 + BUFFER_SIZE /\ contadorBuffer = 0
    /\ disco.regs = passados

\* C33: relatorioTransacoes(n), n taken as at most totalBlocos, prints the
\* blocks 1 .. n, each once and as it was appended, under the heading of its
\* cached count, the counts ascending and the ids ascending within a count;
\* nothing is printed for n = 0 or an empty chain.
C33_RelatorioTransacoes ==
    Aberto =>
        \A n \in 0 .. (totalBlocos + 1) :
            LET out == relatorioTransacoes(n)
                m   == IF n > totalBlocos THEN totalBlocos ELSE n
            IN  /\ Len(out) = m
                /\ { out[k].bloco.numero : k \in 1 .. Len(out) } = 1 .. m
                /\ \A k \in 1 .. Len(out) :
                      /\ out[k].bloco = passados[out[k].bloco.numero]
                      /\ out[k].qtd = cacheContagemTx[out[k].bloco.numero]
                /\ \A k \in 1 .. Len(out) - 1 :
                      \/ out[k].qtd < out[k + 1].qtd
                      \/ /\ out[k].qtd = out[k + 1].qtd
                         /\ out[k].bloco.numero < out[k + 1].bloco.numero

\* C33 witness: 17 blocks; the report asked for 22 blocks prints the 17,
\* starting with block 1 and a later block in bucket 0 and ending with
\* block 17 in bucket 61; the report of 0 blocks is empty.
C33_Witness ==
    /\ Aberto /\ totalBlocos = BUFFER_SIZE + 1
    /\ relatorioTransacoes(0) = <<>>
    /\ LET out == relatorioTransacoes(totalBlocos + 5)
       IN  /\ Len(out) = totalBlocos
           /\ out[1].bloco.numero = 1 /\ out[1].qtd = 0
           /\ out[2].qtd = 0 /\ out[2].bloco.numero > 1
           /\ out[Len(out)].bloco.numero = totalBlocos
           /\ out[Len(out)].qtd = NUM_BUCKETS - 1

\* The blocks of the chain mined by address a, in append order.
BlocosDe(a) ==
    LET De(b) == b.data.minerador = a
    IN  SelectSeq(passados, De)

\* C34: listarBlocosMinerador(a, N) prints the first min(N, c) blocks mined by
\* a in append order, c being the number of blocks whose miner byte is a:
\* never more than N, never a block of another miner.
C34_PrimeirosDoMinerador ==
    Aberto =>
        \A a \in Mineradores \cup {8} :
            \A nn \in -1 .. (totalBlocos + 1) :
                LET out == listarBlocosMinerador(a, nn)
                    c   == Len(BlocosDe(a))
                    m   == IF nn <= 0 THEN 0 ELSE IF nn < c THEN nn ELSE c
                IN  /\ out = SubSeq(BlocosDe(a), 1, m)
                    /\ Len(out) <= (IF nn < 0 THEN 0 ELSE nn)
                    /\ \A k \in 1 .. Len(out) : out[k].data.minerador = a

\* C34 witness: 17 blocks, at least 5 of them mined by address 9 and at
\* least 10 by address 7; the first 3 of address 9 are asked for and given,
\* and asking for 17 of address 7 gives the blocks it mined and no more.
C34_Witness ==
    /\ Aberto /\ totalBlocos = BUFFER_SIZE + 1
    /\ Len(BlocosDe(9)) >= 5 /\ Len(BlocosDe(7)) >= 10
    /\ Len(listarBlocosMinerador(9, 3)) = 3
    /\ listarBlocosMinerador(9, 3)[3].numero <= 6
    /\ Len(listarBlocosMinerador(7, totalBlocos)) = Len(BlocosDe(7))
    /\ listarBlocosMinerador(8, 3) = <<>>

----------------------------------------------------------------------------
(* The driver: the transaction generator, the simulation and the start-up *)

MAX_TRANSACOES == 61
VALOR_MAXIMO == 50
TOTAL_BLOCOS_SIMULACAO == 3

\* The bytes of fraseGenesis, three by three.
FraseGenesis ==
    << <<84, 104, 101>>, <<32, 84, 105>>, <<109, 101, 115>>, <<32, 48, 51>>,
       <<47, 74, 97>>, <<110, 47, 50>>, <<48, 48, 57>>, <<32, 67, 104>>,
       <<97, 110, 99>>, <<101, 108, 108>>, <<111, 114, 32>>, <<111, 110, 32>>,
       <<98, 114, 105>>, <<110, 107, 32>>, <<111, 102, 32>>, <<115, 101, 99>>,
       <<111, 110, 100>>, <<32, 98, 97>>, <<105, 108, 111>>, <<117, 116, 32>>,
       <<102, 111, 114>>, <<32, 98, 97>>, <<110, 107, 115>> >>

\* The values of genRandLong(r) % n that are followed: of % 256 for the miner
\* and for the receiver, of % (MAX_TRANSACOES + 1) for the number of triples
\* and of % (maximoPossivel + 1) for the value.
MineradoresSorteados == {0, 7}
DestinosSorteados == {0}
QuantidadesSorteadas == {0, 1, 2}
ValoresSorteados(maximoPossivel) == {0, maximoPossivel}

\* The loop of gerarDadosDoBloco that never debits saldoTemp.
RECURSIVE GerarTransacoes_semDebito(_, _, _)
GerarTransacoes_semDebito(saldoTemp, candidatos, faltam) ==
    IF faltam = 0 \/ candidatos = {} THEN { <<>> }
    ELSE UNION { UNION { UNION {
             { << <<origem, destino, valor>> >> \o resto :
                 resto \in GerarTransacoes_semDebito(saldoTemp, candidatos, faltam - 1) }
           : valor \in ValoresSorteados(IF saldoTemp[origem] > VALOR_MAXIMO
                                        THEN VALOR_MAXIMO ELSE saldoTemp[origem]) }
           : destino \in DestinosSorteados }
           : origem \in candidatos }

\* The loop of gerarDadosDoBloco with faltam iterations left: the lists of
\* triples it can write.  candidatos holds the addresses of the candidate
\* array, of which the sender is drawn; an address leaves it when its
\* simulated balance reaches zero and none enters it.
RECURSIVE GerarTransacoes(_, _, _)
GerarTransacoes(saldoTemp, candidatos, faltam) ==
    IF faltam = 0 \/ candidatos = {} THEN { <<>> }
    ELSE UNION { UNION { UNION {
             LET s1 == [saldoTemp EXCEPT ![origem] = @ - valor]
                 s2 == [s1 EXCEPT ![destino] = @ + valor]
                 c  == IF s2[origem] = 0 THEN candidatos \ {origem} ELSE candidatos
             IN  { << <<origem, destino, valor>> >> \o resto :
                     resto \in GerarTransacoes(s2, c, faltam - 1) }
           : valor \in ValoresSorteados(IF saldoTemp[origem] > VALOR_MAXIMO
                                        THEN VALOR_MAXIMO ELSE saldoTemp[origem]) }
           : destino \in DestinosSorteados }
           : origem \in candidatos }

\* gerarDadosDoBloco(numeroDoBloco, dataBlock, NULL, &r): the payloads it can
\* leave in dataBlock, the balances read with getSaldo.
gerarDadosDoBloco(numeroDoBloco) ==
    IF numeroDoBloco = 1
    THEN { [tx |-> FraseGenesis, minerador |-> m] : m \in MineradoresSorteados }
    ELSE LET candidatos == { k \in Enderecos : saldos[k] > 0 }
             listas == UNION { GerarTransacoes(saldos, candidatos, q) :
                                 q \in QuantidadesSorteadas \cap 0 .. MAX_TRANSACOES }
         IN  { [tx |-> t, minerador |-> m] : t \in listas, m \in MineradoresSorteados }

\* minerarBloco: the nonce that the search from 0 upwards ends with.
minerarBloco(numero) == 10 + 10 * ((numero + 1) % 2)

\* main's test of the block count that inicializarStorage found, taken for
\* an incomplete chain only when the log holds no block.
Incompleta_soVazia(totalBlocosDisco) == totalBlocosDisco = 0

\* main's test of the block count that inicializarStorage found.
Incompleta(totalBlocosDisco) == totalBlocosDisco < TOTAL_BLOCOS_SIMULACAO

\* main: inicializarStorage(ARQUIVO_BLOCKCHAIN) at the start.
MainAbrir ==
    /\ fase = "inicio"
    /\ \/ AbrirNovo
       \/ AbrirExistente

\* main: an incomplete chain that is not empty is closed, ...
MainFinalizar ==
    /\ fase = "reconstruido"
    /\ Incompleta(totalBlocos)
    /\ totalBlocos > 0
    /\ finalizarStorage

\* ... its file removed ...
MainRemover ==
    /\ fase = "fechado"
    /\ Remover

\* ... and the engine opened again.
MainReabrir ==
    /\ fase = "removido"
    /\ \/ AbrirNovo
       \/ AbrirExistente

\* rodarSimulacao, block 1: generated, mined by criarBlocoGenesis, appended.
SimularGenesis ==
    /\ \/ fase = "criado"
       \/ fase = "reconstruido" /\ Incompleta(totalBlocos) /\ ~(totalBlocos > 0)
    /\ \E d \in gerarDadosDoBloco(1) :
          adicionarBloco(criarBloco(1, [nonce |-> minerarBloco(1),
                                        minerador |-> d.minerador, tx |-> d.tx],
                                    HashZero))

\* rodarSimulacao, one turn of the loop: block i generated, mined by
\* criarProxBloco on top of the block before it, appended.  The blocks that
\* the run appended are passados, so i is Len(passados) + 1.
SimularProximo ==
    /\ fase = "adicionado"
    /\ LET i == Len(passados) + 1
       IN  /\ i <= TOTAL_BLOCOS_SIMULACAO
           /\ \E d \in gerarDadosDoBloco(i) :
                 adicionarBloco(criarBloco(i, [nonce |-> minerarBloco(i),
                                               minerador |-> d.minerador, tx |-> d.tx],
                                           passados[Len(passados)].hash))

\* main arrives at the menu: after rodarSimulacao, or with a complete chain.
Menu ==
    /\ \/ fase = "adicionado" /\ ~(Len(passados) + 1 <= TOTAL_BLOCOS_SIMULACAO)
       \/ fase = "reconstruido" /\ ~Incompleta(totalBlocos)
    /\ fase' = "menu"
    /\ UNCHANGED <<disco, arquivoAtual, buffer, contadorBuffer, posicao, leitura,
                   passados, antesDeFechar, antesDeMatar, persistidosAoAbrir>>
    /\ GlobaisInalterados

\* The log that main finds: none, or what an earlier run left.
InitMain ==
    /\ disco \in {ArquivoInexistente}
                 \cup { ArquivoCanonico(m, frag) :
                          m \in 0 .. TOTAL_BLOCOS_SIMULACAO + 1, frag \in {0, FragBytes} }
    /\ passados = disco.regs
    /\ EngineInicial

NextMain ==
    \/ MainAbrir
    \/ MainFinalizar
    \/ MainRemover
    \/ MainReabrir
    \/ SimularGenesis
    \/ SimularProximo
    \/ Menu

SpecMain == InitMain /\ [][NextMain]_vars

\* C35 (as claimed): in a payload that gerarDadosDoBloco wrote for a block
\* number >= 2 no triple (0, 0, 0) comes before another written transaction,
\* so that none of the transfers written is behind the triple at which the
\* scan of the engine stops.
C35_Claim ==
    (fase = "adicionado" /\ Len(passados) >= 2) =>
        LET tx == passados[Len(passados)].data.tx
        IN  \A k \in 1 .. Len(tx) : \A j \in k + 1 .. Len(tx) :
                ~(tx[k] = <<0, 0, 0>> /\ tx[j][3] > 0)

\* C37: a payload that gerarDadosDoBloco wrote from the balances of the
\* engine is never refused a transfer when the block is appended next: no
\* triple that the scan meets asks for more than its sender has at that
\* moment, and every triple with a value that the scan meets is applied.
C37_SemRecusa ==
    (fase = "adicionado" /\ Len(passados) >= 2) =>
        LET n  == Len(passados)
            tx == passados[n].data.tx
        IN  /\ Recusadas(n) = {}
            /\ cacheContagemTx[n] = Len(Ativas(tx))

\* C37 witness: block 3 carries two transfers of 50 from two senders, the
\* second of which is not its miner, and both were applied.
C37_Witness ==
    /\ fase = "adicionado" /\ Len(passados) = 3
    /\ LET b == passados[3]
       IN  /\ Len(b.data.tx) = 2
           /\ b.data.tx[1][3] = VALOR_MAXIMO /\ b.data.tx[2][3] = VALOR_MAXIMO
           /\ b.data.tx[1][1] # b.data.tx[2][1]
           /\ b.data.tx[2][1] # b.data.minerador
    /\ cacheContagemTx[3] = 2

----------------------------------------------------------------------------
(* Chains of blocks with chosen nonces *)

MaxComNonce == 3

\* The nonces that mining ends with in these chains.
NoncesSorteados == {0, 10, 17711, 28667, 65536, 2147483647}

\* The caller appends a block mined with one of the nonces.
AdicionarComNonce ==
    /\ totalBlocos < MaxComNonce
    /\ \E nonce \in NoncesSorteados :
          adicionarBloco(criarBloco(totalBlocos + 1,
              [nonce |-> nonce, minerador |-> 7, tx |-> <<>>],
              IF passados = <<>> THEN HashZero ELSE passados[Len(passados)].hash))

NextNonce ==
    \/ AbrirNovo
    \/ AbrirExistente
    \/ AdicionarComNonce
    \/ finalizarStorage

SpecNonce == Init /\ [][NextNonce]_vars

\* The 16-bit halves of the nonces on which the hash is compared.
Metades == {0, 1, 10, 17711, 28667, 32767, 32768, 65535}

\* Twice the 32-bit number p = [h, l], modulo 2^32.
Dobro(p) == [h |-> (2 * p.h + p.l \div 32768) % 65536, l |-> (2 * p.l) % 65536]

\* The sum of two 32-bit numbers, modulo 2^32.
Soma32(p, q) == [h |-> (p.h + q.h + (p.l + q.l) \div 65536) % 65536,
                 l |-> (p.l + q.l) % 65536]

\* Bit b of 2654435761.
BitDeKnuth(b) == IF b < 16 THEN (KNUTH_BAIXO \div 2 ^ b) % 2
                 ELSE (KNUTH_ALTO \div 2 ^ (b - 16)) % 2

\* (nonce * 2654435761) mod 2^32 by shifting and adding: p is the nonce
\* shifted left b times, acc the sum for the bits below b.
RECURSIVE ProdutoMod32(_, _, _)
ProdutoMod32(p, b, acc) ==
    IF b = 32 THEN acc
    ELSE ProdutoMod32(Dobro(p), b + 1,
                      IF BitDeKnuth(b) = 1 THEN Soma32(acc, p) ELSE acc)

\* The top bits of the 32 bits of p.
BitsAltos(p, bits) ==
    IF bits <= 16 THEN p.h \div 2 ^ (16 - bits)
    ELSE p.h * 2 ^ (bits - 16) + p.l \div 2 ^ (32 - bits)

\* ((nonce * 2654435761) mod 2^32) >> (32 - bits) for nonce = nh * 65536 + nl.
BaldeEsperado(nh, nl, bits) ==
    BitsAltos(ProdutoMod32([h |-> nh, l |-> nl], 0, [h |-> 0, l |-> 0]), bits)

\* C36 (as claimed): the bucket of a nonce is
\* ((nonce * 2654435761) mod 2^32) >> (32 - 19), of a table of
\* 2^19 = 524288 buckets: the node of every block sits in that bucket.
C36_Claim ==
    Aberto =>
        \A i \in 1 .. totalBlocos :
            LET nonce == passados[i].nonce
                pos   == BaldeEsperado(nonce \div 65536, nonce % 65536, 19)
            IN  /\ hashFunction(nonce) = pos
                /\ [nonce |-> nonce, idBloco |-> i]
                       \in Elementos(Balde(tabelaNonce, pos))

\* C36 (amended): the bucket of a nonce is
\* ((nonce * 2654435761) mod 2^32) >> (32 - 14), the table has
\* 2^14 = 16384 buckets, and the bucket of every 32-bit nonce is an index of
\* the table; the node of every block sits in the bucket so computed.  The
\* hash depends on the nonce alone and is compared on the halves once, when
\* the table has been created.
C36_Balde ==
    /\ fase = "criado" =>
          /\ TAM_HASH = 16384
          /\ \A nh \in Metades : \A nl \in Metades :
                /\ hashDasMetades(nh, nl) = BaldeEsperado(nh, nl, 14)
                /\ hashDasMetades(nh, nl) \in 0 .. TAM_HASH - 1
    /\ Aberto =>
          /\ DOMAIN tabelaNonce \subseteq 0 .. TAM_HASH - 1
          /\ \A i \in 1 .. totalBlocos :
                LET nonce == passados[i].nonce
                    pos   == BaldeEsperado(nonce \div 65536, nonce % 65536, 14)
                IN  /\ hashFunction(nonce) = pos
                    /\ [nonce |-> nonce, idBloco |-> i]
                           \in Elementos(Balde(tabelaNonce, pos))

\* C36 witness: the chain holds a nonce of the last bucket, one of bucket 0
\* and the largest positive 31-bit nonce, whose product leaves 32 bits.
C36_Witness ==
    /\ Aberto /\ totalBlocos = 3
    /\ { passados[i].nonce : i \in 1 .. 3 } = {0, 17711, 2147483647}
    /\ hashFunction(17711) = TAM_HASH - 1
    /\ Balde(tabelaNonce, TAM_HASH - 1) # <<>>
    /\ Balde(tabelaNonce, 0) # <<>>
    /\ Balde(tabelaNonce, 14450) # <<>>

\* C38: no balance wraps.  A debit larger than the balance would leave the
\* unsigned balance below zero, here a negative number: every balance stays
\* between 0 and RECOMPENSA * totalBlocos, whatever the payloads ask for.
C38_SemEstouro ==
    Aberto =>
        \A a \in Enderecos :
            /\ saldos[a] >= 0
            /\ saldos[a] <= RECOMPENSA * totalBlocos

\* C38 witness: address 9 holds the 50 of block 1 and block 2 asks it for 60;
\* it is left with its 50 and the 20 that the next triple sends it.
C38_Witness ==
    /\ Aberto /\ fase = "adicionado" /\ totalBlocos = 2
    /\ passados[1].data.minerador = 9
    /\ passados[2].data.tx = << <<9, 7, 60>>, <<7, 9, 20>> >>
    /\ saldos[9] = 70
    /\ saldos[7] = 30

\* C39: main reaches the menu only with totalBlocos >= TOTAL_BLOCOS_SIMULACAO:
\* either the log held a complete chain, which is loaded and left as it is,
\* or the engine was opened with no block and rodarSimulacao appended the
\* whole chain from block 1.  An incomplete chain that is not empty is closed
\* and its file removed before anything is appended.  The i-th block that
\* rodarSimulacao appends carries the number i.
C39_Partida ==
    /\ fase = "menu" =>
          /\ Aberto
          /\ totalBlocos >= TOTAL_BLOCOS_SIMULACAO
          /\ \/ /\ persistidosAoAbrir >= TOTAL_BLOCOS_SIMULACAO
                /\ totalBlocos = persistidosAoAbrir
                /\ passados = disco.regs
                /\ buffer = <<>>
             \/ /\ persistidosAoAbrir = 0
                /\ totalBlocos = TOTAL_BLOCOS_SIMULACAO
                /\ Len(passados) = TOTAL_BLOCOS_SIMULACAO
                /\ passados[1].data.tx = FraseGenesis
                /\ disco.regs \o buffer = passados
    /\ fase = "adicionado" =>
          /\ persistidosAoAbrir = 0
          /\ totalBlocos = Len(passados)
          /\ totalBlocos <= TOTAL_BLOCOS_SIMULACAO
          /\ disco.regs \o buffer = passados
          /\ passados[1].data.tx = FraseGenesis
          /\ passados[1].hashAnterior = HashZero
          /\ \A i \in 1 .. Len(passados) :
                /\ passados[i].numero = i
                /\ i > 1 => passados[i].hashAnterior = passados[i - 1].hash
    /\ fase = "fechado" =>
          /\ antesDeFechar.totalBlocos > 0
          /\ antesDeFechar.totalBlocos < TOTAL_BLOCOS_SIMULACAO
    /\ fase = "removido" => ~disco.existe
    /\ fase = "criado" => totalBlocos = 0 /\ disco.regs = <<>> /\ disco.frag = 0

\* C39 witness: the log held an incomplete chain, which was closed and
\* removed; the menu is reached with the chain that rodarSimulacao appended.
C39_Witness ==
    /\ fase = "menu"
    /\ antesDeFechar.totalBlocos = TOTAL_BLOCOS_SIMULACAO - 1
    /\ totalBlocos = TOTAL_BLOCOS_SIMULACAO
    /\ passados[1].data.tx = FraseGenesis
    /\ passados[TOTAL_BLOCOS_SIMULACAO].numero = TOTAL_BLOCOS_SIMULACAO
    /\ disco.regs \o buffer = passados

====
